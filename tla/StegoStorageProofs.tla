-------------------------- MODULE StegoStorageProofs --------------------------
(***************************************************************************)
(* The facade, for any number of carriers, values, passwords and           *)
(* configurations, whatever fails and whenever it crashes, and for a       *)
(* client that gives the process up after an exception.                    *)
(*                                                                         *)
(* Then one batch of tasks is alive at a time, and no two tasks share a    *)
(* carrier (BatchInv).  The storage in use, the carriers and the manager   *)
(* refer to each other as they should (ObjectInv), so that what a Save     *)
(* writes is one content with its checksum (PictureInv).                   *)
(*                                                                         *)
(* For a client that also opens before it loads: LoadInv says what the     *)
(* tasks of a Load have extracted; the checksum and the round trip follow. *)
(* ClaimInv relates the pictures to the volume a Save found and the one it *)
(* stores: at every write the pictures carry one of them or none, which is *)
(* what DurableStore promises.                                             *)
(***************************************************************************)
EXTENDS StegoStorage, TLAPS

\* What a storage holds once it is loaded, or written.
Settling == [File -> Values \cup {Junk}]

LoadTask == [st : {"queued", "busy", "ok", "threw"}, raced : {FALSE}, buf : {None}]
SaveTask == [st : {"queued", "embedded", "writing", "ok", "threw"}, raced : {FALSE},
             buf : Piece \cup {None}]
LoadBatch == [kind : {"load"}, gen : Gens, task : [File -> LoadTask]]
SaveBatch == [kind : {"save"}, gen : Gens, task : [File -> SaveTask]]

TypeInv ==
    /\ config \in Configs \cup {Unset}
    /\ opened \in BOOLEAN
    /\ gen \in Gens \cup {None}
    /\ files \in [Gens -> [key : Key \cup {None}, loaded : SUBSET File,
                           vs : Stores \cup {None}]]
    /\ vs \in Stores \cup {None} /\ mvs \in Stores \cup {None}
    /\ store \in [Stores -> [data : Content, sum : [File -> SumShare]]]
    /\ batch \in [Batches -> {NoBatch} \cup LoadBatch \cup SaveBatch]
    /\ op \in {Idle} \cup [name : {"load", "save"}, batch : Batches]
    /\ result \in {"ok", "threw"}
    /\ disk \in [File -> Piece]
    /\ holders \subseteq File /\ holders # {}
    /\ saved \in {None} \cup [content : Settling, key : Key]
    /\ loadKey \in Key \cup {None}

Live(b) == batch[b].kind # "none"
Saving == \E b \in Batches : batch[b].kind = "save"

\* One batch at a time: that of the call, or what a call that threw left.
BatchInv ==
    /\ \A b \in Batches : Live(b) => batch[b].gen = gen
    /\ \A b, c \in Batches : Live(b) /\ Live(c) => b = c
    /\ op # Idle => batch[op.batch].kind = op.name /\ result = "ok"
    /\ op = Idle /\ result = "ok" => \A b \in Batches : ~Live(b)

\* The client may call, or a Save is at work.
Calm == (op = Idle /\ result = "ok") \/ Saving

ObjectInv ==
    /\ opened => gen # None
    /\ gen # None =>
          /\ files[gen].key \in Key
          /\ files[gen].vs \in {vs, None}
          /\ files[gen].vs = None => files[gen].loaded = {}
    /\ \A b \in Batches : batch[b].kind = "load" =>
          vs # None /\ vs # mvs /\ files[gen].vs = vs
    /\ Calm =>
          /\ vs = mvs
          /\ vs # None => store[vs].data \in Settling
          /\ gen # None /\ files[gen].loaded # {} => files[gen].key = loadKey
    /\ Saving => vs # None /\ store[vs].sum = [f \in File |-> store[vs].data]

\* The piece of a content that belongs to a picture.
PieceOf(content, key, f) == [data |-> content[f], sum |-> content, key |-> key]

SaveTaskInv(t, f) ==
    /\ t.st \in {"embedded", "writing", "ok"} => f \in files[gen].loaded
    /\ t.st \in {"embedded", "writing"} => t.buf = PieceOf(store[vs].data, files[gen].key, f)
    /\ t.st = "ok" => disk[f] = PieceOf(store[vs].data, files[gen].key, f)

PictureInv ==
    /\ \A b \in Batches, f \in File : batch[b].kind = "save" => SaveTaskInv(batch[b].task[f], f)
    /\ \A f \in File : disk[f].key # None =>
           disk[f].sum \in Settling /\ disk[f].data = disk[f].sum[f]
    /\ saved # None /\ ~Saving =>
           \A f \in File : disk[f] = PieceOf(saved.content, saved.key, f)
    /\ Saving /\ op = Idle => saved = None

FacadeInv == TypeInv /\ BatchInv /\ ObjectInv /\ PictureInv

-----------------------------------------------------------------------------
(* What the operators of the model do.                                     *)

FilesType == [Gens -> [key : Key \cup {None}, loaded : SUBSET File, vs : Stores \cup {None}]]
StoreType == [Stores -> [data : Content, sum : [File -> SumShare]]]
BatchType == [Batches -> {NoBatch} \cup LoadBatch \cup SaveBatch]

\* What is not empty has a member that CHOOSE finds.
LEMMA SomeOf == ASSUME NEW S, S # {} PROVE Some(S) \in S
BY DEF Some

\* A batch is of one of three kinds.
LEMMA BatchKinds ==
    ASSUME TypeInv, NEW b \in Batches
    PROVE  /\ batch[b].kind = "none" <=> batch[b] = NoBatch
           /\ batch[b].kind = "load" <=> batch[b] \in LoadBatch
           /\ batch[b].kind = "save" <=> batch[b] \in SaveBatch
           /\ batch[b].kind \in {"none", "load", "save"}
           /\ Live(b) => batch[b].gen \in Gens
BY DEF TypeInv, NoBatch, LoadBatch, SaveBatch, Live

\* The calls there are.
LEMMA OpKinds ==
    ASSUME TypeInv
    PROVE  /\ op = Idle <=> op.name = "idle"
           /\ op # Idle => op.batch \in Batches /\ op.name \in {"load", "save"}
           /\ op = Idle => op.batch = None
BY DEF TypeInv, Idle

\* Carriers that are in use stay as they are given.
LEMMA FilesFrame ==
    ASSUME NEW fs \in FilesType, FilesBecome(fs)
    PROVE  /\ files' \in FilesType
           /\ gen' \in Gens => files'[gen'] = fs[gen']
           /\ \A g \in Gens : files'[g] \in {fs[g], NoCarriers}
<1>1. NoCarriers \in [key : Key \cup {None}, loaded : SUBSET File, vs : Stores \cup {None}]
  BY DEF NoCarriers
<1>. QED
  BY <1>1 DEF FilesBecome, FilesType

\* So do the storages in use.
LEMMA StoresFrame ==
    ASSUME NEW st \in StoreType, StoresBecome(st)
    PROVE  /\ store' \in StoreType
           /\ vs' \in Stores => store'[vs'] = st[vs']
           /\ mvs' \in Stores => store'[mvs'] = st[mvs']
<1>1. NoStorage \in [data : Content, sum : [File -> SumShare]]
  BY DEF NoStorage, Content, Share, SumShare
<1>. QED
  BY <1>1 DEF StoresBecome, StoreType

\* The memory of the process, apart from objects that nobody refers to.
SameMemory ==
    /\ UNCHANGED <<config, opened, gen, vs, mvs>>
    /\ files' \in FilesType /\ store' \in StoreType
    /\ gen # None => files'[gen] = files[gen]
    /\ vs # None => store'[vs] = store[vs]

\* A step that writes into no storage and no files in use leaves what is loaded.
LEMMA MemoryFrame ==
    ASSUME TypeInv, UNCHANGED <<config, opened, gen, vs, mvs>>,
           FilesBecome(files), StoresBecome(store)
    PROVE  SameMemory
<1>1. files \in FilesType /\ store \in StoreType
  BY DEF TypeInv, FilesType, StoreType
<1>2. gen \in Gens \cup {None} /\ vs \in Stores \cup {None}
  BY DEF TypeInv
<1>. QED
  BY <1>1, <1>2, FilesFrame, StoresFrame DEF SameMemory

\* The same for a step that touches no memory at all.
LEMMA MemoryUnchanged ==
    ASSUME TypeInv, UNCHANGED memoryVars
    PROVE  SameMemory
BY DEF TypeInv, FilesType, StoreType, SameMemory, memoryVars

\* With one batch at a time, no task has a rival.
LEMMA NoRivals ==
    ASSUME TypeInv, BatchInv, NEW b \in Batches, NEW f \in File, Live(b)
    PROVE  Rivals(b, f) = {}
<1>1. SUFFICES ASSUME NEW c \in Batches \ {b}, batch[c].task[f].st \in Active PROVE FALSE
  BY DEF Rivals
<1>2. Live(c)
  <2>1. NoBatch.task[f].st = "none"
    BY DEF NoBatch, IdleTask
  <2>. QED
    BY <1>1, <2>1, BatchKinds DEF Active, Live
<1>. QED
  BY <1>1, <1>2 DEF BatchInv

\* A task goes on with t, or it was the last of a batch that nobody waits for.
TaskBecomes(b, f, t) ==
    \/ batch' = [batch EXCEPT ![b] = Step(b, f, t)]
    \/ batch' = [batch EXCEPT ![b] = NoBatch] /\ op.batch # b

\* A task that begins its next step changes in its own place of a living batch only.
LEMMA BeginFrame ==
    ASSUME TypeInv, BatchInv, NEW b \in Batches, NEW f \in File, Live(b),
           NEW t \in LoadTask \cup SaveTask, Begin(b, f, t)
    PROVE  TaskBecomes(b, f, t)
<1>1. Rivals(b, f) = {} /\ [t EXCEPT !.raced = FALSE] = t
  BY NoRivals DEF LoadTask, SaveTask
<1>2. batch' = [c \in Batches |-> IF c = b THEN Step(b, f, t) ELSE batch[c]]
  BY <1>1 DEF Begin
<1>3. batch \in BatchType
  BY DEF TypeInv, BatchType
<1>4. batch' = [batch EXCEPT ![b] = Step(b, f, t)]
  BY <1>2, <1>3 DEF BatchType
<1>. QED
  BY <1>4 DEF TaskBecomes

\* So does a task that ends.
LEMMA FinishFrame ==
    ASSUME NEW b \in Batches, NEW f \in File, NEW st, Finish(b, f, st), op' = op
    PROVE  TaskBecomes(b, f, [IdleTask EXCEPT !.st = st])
BY DEF Finish, BatchBecomes, TaskBecomes

\* What the step of a task does to the batches.
LEMMA TaskFrame ==
    ASSUME TypeInv, BatchInv, NEW b \in Batches, NEW f \in File, Live(b), NEW t,
           TaskBecomes(b, f, t), UNCHANGED <<op, result, gen>>,
           \/ batch[b].kind = "load" /\ t \in LoadTask
           \/ batch[b].kind = "save" /\ t \in SaveTask
    PROVE  /\ batch' \in BatchType
           /\ BatchInv'
           /\ \A c \in Batches \ {b} : batch'[c] = batch[c]
           /\ \/ /\ batch'[b].kind = batch[b].kind
                 /\ batch'[b].task[f] = t
                 /\ \A g \in File \ {f} : batch'[b].task[g] = batch[b].task[g]
              \/ op = Idle /\ \A c \in Batches : ~Live(c)'
<1>1. batch \in BatchType
  BY DEF TypeInv, BatchType
<1>2. Step(b, f, t) \in LoadBatch \cup SaveBatch
  BY BatchKinds DEF Step, LoadBatch, SaveBatch
<1>3. /\ Step(b, f, t).kind = batch[b].kind /\ Step(b, f, t).gen = batch[b].gen
      /\ Step(b, f, t).task[f] = t
      /\ \A g \in File \ {f} : Step(b, f, t).task[g] = batch[b].task[g]
  BY BatchKinds DEF Step, LoadBatch, SaveBatch
<1>4. CASE batch' = [batch EXCEPT ![b] = Step(b, f, t)]
  <2>1. batch' \in BatchType
    BY <1>1, <1>2, <1>4 DEF BatchType
  <2>2. /\ batch'[b] = Step(b, f, t)
        /\ \A c \in Batches \ {b} : batch'[c] = batch[c]
    BY <1>1, <1>4 DEF BatchType
  <2>3. \A c \in Batches : batch'[c].kind = batch[c].kind /\ batch'[c].gen = batch[c].gen
    BY <1>3, <2>2
  <2>4. BatchInv'
    BY <2>3, OpKinds DEF BatchInv, Live
  <2>. QED
    BY <1>3, <2>1, <2>2, <2>4
<1>5. CASE batch' = [batch EXCEPT ![b] = NoBatch] /\ op.batch # b
  <2>1. batch' \in BatchType
    BY <1>1, <1>5 DEF BatchType
  <2>2. /\ batch'[b] = NoBatch
        /\ \A c \in Batches \ {b} : batch'[c] = batch[c]
    BY <1>1, <1>5 DEF BatchType
  <2>3. \A c \in Batches : Live(c) => c = b
    BY DEF BatchInv
  <2>4. op = Idle
    BY <1>5, <2>3, OpKinds DEF BatchInv, Live
  <2>5. \A c \in Batches : ~Live(c)'
    BY <2>2, <2>3 DEF Live, NoBatch
  <2>6. BatchInv'
    BY <2>4, <2>5 DEF BatchInv
  <2>. QED
    BY <2>1, <2>2, <2>4, <2>5, <2>6
<1>. QED
  BY <1>4, <1>5 DEF TaskBecomes

-----------------------------------------------------------------------------
(* The tasks.                                                              *)

\* The conjuncts of TypeInv that a task's step decides.
LEMMA TypesAfterTask ==
    ASSUME TypeInv, UNCHANGED <<config, opened, gen, vs, mvs, op, result, holders, saved, loadKey>>,
           batch' \in BatchType, files' \in FilesType, store' \in StoreType,
           disk' \in [File -> Piece]
    PROVE  TypeInv'
BY DEF TypeInv, BatchType, FilesType, StoreType

\* A step of a SaveFile task leaves the memory alone and, of the pictures,
\* touches its own.
LEMMA SaveTaskKeeps ==
    ASSUME FacadeInv, NEW b \in Batches, NEW f \in File, NEW t \in SaveTask,
           batch[b].kind = "save", TaskBecomes(b, f, t), SameMemory,
           UNCHANGED <<op, result, holders, saved, loadKey>>,
           disk' \in [File -> Piece], \A g \in File \ {f} : disk'[g] = disk[g],
           disk'[f].key # None => disk'[f].sum \in Settling /\ disk'[f].data = disk'[f].sum[f],
           t.st \in {"embedded", "writing", "ok"} => f \in files[gen].loaded,
           t.st \in {"embedded", "writing"} => t.buf = PieceOf(store[vs].data, files[gen].key, f),
           t.st = "ok" => disk'[f] = PieceOf(store[vs].data, files[gen].key, f)
    PROVE  FacadeInv'
<1>1. TypeInv /\ BatchInv /\ Live(b) /\ Saving
  BY DEF FacadeInv, Live, Saving
<1>2. /\ batch' \in BatchType /\ BatchInv'
      /\ \A c \in Batches \ {b} : batch'[c] = batch[c]
      /\ \/ /\ batch'[b].kind = batch[b].kind
            /\ batch'[b].task[f] = t
            /\ \A g \in File \ {f} : batch'[b].task[g] = batch[b].task[g]
         \/ op = Idle /\ \A c \in Batches : ~Live(c)'
  BY <1>1, TaskFrame DEF SameMemory
<1>3. TypeInv'
  BY <1>1, <1>2, TypesAfterTask DEF SameMemory
<1>4. /\ vs # None /\ store'[vs] = store[vs]
      /\ gen # None /\ files'[gen] = files[gen]
  <2>1. gen # None
    BY <1>1, BatchKinds, StorageAssumption DEF BatchInv
  <2>. QED
    BY <1>1, <2>1 DEF FacadeInv, ObjectInv, SameMemory
<1>5. Saving' \/ (op = Idle /\ ~Saving')
  BY <1>2 DEF Saving, Live
<1>6. op = Idle => result # "ok"
  BY <1>1 DEF BatchInv, Live
<1>7. ObjectInv'
  <2>1. \A c \in Batches : batch'[c].kind # "load"
    <3>1. \A c \in Batches \ {b} : ~Live(c)
      BY <1>1 DEF BatchInv
    <3>. QED
      BY <1>2, <3>1 DEF Live
  <2>2. Calm' => Saving'
    BY <1>5, <1>6 DEF Calm, SameMemory
  <2>. QED
    BY <1>1, <1>4, <2>1, <2>2 DEF FacadeInv, ObjectInv, Calm, SameMemory
<1>8. PictureInv'
  <2>1. ASSUME NEW c \in Batches, NEW g \in File, batch'[c].kind = "save"
        PROVE  SaveTaskInv(batch[c].task[g], g)'
    <3>1. c = b /\ batch'[b].kind = batch[b].kind
      BY <1>1, <1>2, <2>1 DEF BatchInv, Live
    <3>2. CASE g = f
      BY <1>2, <1>4, <2>1, <3>1, <3>2 DEF SaveTaskInv, SameMemory, Live
    <3>3. CASE g # f
      <4>1. batch'[c].task[g] = batch[b].task[g] /\ disk'[g] = disk[g]
        BY <1>2, <2>1, <3>1, <3>3 DEF Live
      <4>2. SaveTaskInv(batch[b].task[g], g)
        BY DEF FacadeInv, PictureInv
      <4>. QED
        BY <1>4, <3>1, <4>1, <4>2 DEF SaveTaskInv, SameMemory
    <3>. QED
      BY <3>2, <3>3
  <2>2. \A g \in File : disk'[g].key # None =>
            disk'[g].sum \in Settling /\ disk'[g].data = disk'[g].sum[g]
    BY DEF FacadeInv, PictureInv
  <2>3. ~Saving' => saved' = None
    BY <1>1, <1>5 DEF FacadeInv, PictureInv
  <2>4. Saving' /\ op' = Idle => saved' = None
    BY <1>1 DEF FacadeInv, PictureInv
  <2>. QED
    BY <2>1, <2>2, <2>3, <2>4 DEF PictureInv
<1>. QED
  BY <1>2, <1>3, <1>7, <1>8 DEF FacadeInv

\* What a SaveFile task embeds is a piece of a settled content.
LEMMA PieceIsWhole ==
    ASSUME FacadeInv, Saving, NEW f \in File, gen # None
    PROVE  LET p == PieceOf(store[vs].data, files[gen].key, f) IN
           p \in Piece /\ p.sum \in Settling /\ p.data = p.sum[f]
<1>1. store[vs].data \in Settling /\ files[gen].key \in Key
  BY DEF FacadeInv, ObjectInv, Calm
<1>2. Settling \subseteq Content
  BY DEF Settling, Content, Share
<1>. QED
  BY <1>1, <1>2 DEF PieceOf, Piece, SumShare, Settling, Content

\* What a picture holds before any Save is a piece of no volume.
LEMMA ForeignIsPiece == Foreign \in Piece /\ Foreign.key = None
BY DEF Foreign, Piece, Share, SumShare

\* One lemma for each step of SaveFile.
LEMMA SaveFileThrowKeeps ==
    ASSUME FacadeInv, NEW b \in Batches, NEW f \in File, SaveFileThrow(b, f)
    PROVE  FacadeInv'
<1> DEFINE t == [IdleTask EXCEPT !.st = "threw"]
<1>1. /\ batch[b].kind = "save" /\ SameMemory
      /\ UNCHANGED <<op, result, holders, saved, loadKey, disk>>
  BY MemoryFrame DEF SaveFileThrow, FacadeInv, auxVars
<1>2. TaskBecomes(b, f, t)
  BY FinishFrame DEF SaveFileThrow
<1>3. t \in SaveTask /\ t.st = "threw"
  BY DEF SaveTask, IdleTask
<1> HIDE DEF t
<1>. QED
  BY <1>1, <1>2, <1>3, SaveTaskKeeps DEF FacadeInv, TypeInv, PictureInv

\* Embedding into the object reads the storage and writes nothing.
LEMMA SaveFileEmbedKeeps ==
    ASSUME FacadeInv, NEW b \in Batches, NEW f \in File, SaveFileEmbed(b, f)
    PROVE  FacadeInv'
<1> DEFINE s == store[Carriers(b).vs]
           t == [st |-> "embedded", raced |-> FALSE,
                 buf |-> [data |-> s.data[f], sum |-> s.sum[f], key |-> Carriers(b).key]]
<1>1. /\ batch[b].kind = "save" /\ SameMemory /\ f \in Carriers(b).loaded
      /\ UNCHANGED <<op, result, holders, saved, loadKey, disk>>
      /\ Begin(b, f, t)
  BY MemoryUnchanged DEF SaveFileEmbed, FacadeInv, auxVars
<1>2. TypeInv /\ BatchInv /\ Live(b) /\ Saving
  BY <1>1 DEF FacadeInv, Live, Saving
<1>3. Carriers(b) = files[gen] /\ gen # None
  BY <1>2, BatchKinds, StorageAssumption DEF BatchInv, Carriers
<1>4. files[gen].vs = vs /\ store[vs].sum = [g \in File |-> store[vs].data]
  BY <1>1, <1>2, <1>3 DEF FacadeInv, ObjectInv
<1>5. t.buf = PieceOf(store[vs].data, files[gen].key, f)
  BY <1>3, <1>4 DEF PieceOf
<1>6. t \in SaveTask /\ t.st = "embedded"
  BY <1>2, <1>3, <1>5, PieceIsWhole DEF SaveTask
<1>7. TaskBecomes(b, f, t)
  BY <1>1, <1>2, <1>6, BeginFrame
<1> HIDE DEF t
<1>. QED
  BY <1>1, <1>3, <1>5, <1>6, <1>7, SaveTaskKeeps DEF FacadeInv, TypeInv, PictureInv

\* A task in the middle of an overwrite belongs to a Save.
LEMMA WritersSave ==
    ASSUME FacadeInv, NEW b \in Batches, NEW f \in File,
           batch[b].task[f].st \in {"embedded", "writing"}
    PROVE  /\ batch[b].kind = "save" /\ Live(b) /\ Saving /\ gen # None
           /\ batch[b].task[f] \in SaveTask
           /\ f \in files[gen].loaded
           /\ batch[b].task[f].buf = PieceOf(store[vs].data, files[gen].key, f)
<1>1. TypeInv /\ BatchInv
  BY DEF FacadeInv
<1>2. batch[b] \in {NoBatch} \cup LoadBatch \cup SaveBatch
  BY <1>1 DEF TypeInv
<1>3. batch[b] \in SaveBatch
  <2>1. NoBatch.task[f].st = "none"
    BY DEF NoBatch, IdleTask
  <2>2. batch[b] \in LoadBatch => batch[b].task[f] \in LoadTask
    BY DEF LoadBatch
  <2>. QED
    BY <1>2, <2>1, <2>2 DEF LoadTask
<1>4. batch[b].kind = "save" /\ batch[b].task[f] \in SaveTask
  BY <1>3 DEF SaveBatch
<1>5. Live(b) /\ Saving
  BY <1>4 DEF Live, Saving
<1>6. gen # None
  BY <1>1, <1>5, BatchKinds, StorageAssumption DEF BatchInv
<1>7. SaveTaskInv(batch[b].task[f], f)
  BY <1>4 DEF FacadeInv, PictureInv
<1>. QED
  BY <1>4, <1>5, <1>6, <1>7 DEF SaveTaskInv

\* While the file is written, it holds a torn piece.
LEMMA SaveFileWriteKeeps ==
    ASSUME FacadeInv, NEW b \in Batches, NEW f \in File, SaveFileWrite(b, f)
    PROVE  FacadeInv'
<1> DEFINE t == [batch[b].task[f] EXCEPT !.st = "writing"]
<1>1. /\ batch[b].task[f].st = "embedded" /\ SameMemory
      /\ UNCHANGED <<op, result, holders, saved, loadKey>>
      /\ disk' = [disk EXCEPT ![f] = Foreign]
      /\ batch' = [batch EXCEPT ![b].task[f].st = "writing"]
  BY MemoryUnchanged DEF SaveFileWrite, FacadeInv, auxVars
<1>2. /\ batch[b].kind = "save" /\ batch[b].task[f] \in SaveTask
      /\ f \in files[gen].loaded
      /\ batch[b].task[f].buf = PieceOf(store[vs].data, files[gen].key, f)
  BY <1>1, WritersSave
<1>3. /\ t \in SaveTask /\ t.st = "writing" /\ t.buf = batch[b].task[f].buf
  BY <1>2 DEF SaveTask
<1>4. TaskBecomes(b, f, t)
  BY <1>1 DEF TaskBecomes, Step
<1>5. disk' \in [File -> Piece] /\ disk'[f].key = None /\ \A g \in File \ {f} : disk'[g] = disk[g]
  BY <1>1, ForeignIsPiece DEF FacadeInv, TypeInv
<1> HIDE DEF t
<1>. QED
  BY <1>1, <1>2, <1>3, <1>4, <1>5, SaveTaskKeeps

\* A file written to its end holds the piece that the Save had for it.
LEMMA SaveFileEndKeeps ==
    ASSUME FacadeInv, NEW b \in Batches, NEW f \in File, SaveFileEnd(b, f)
    PROVE  /\ FacadeInv'
           /\ disk' = [disk EXCEPT ![f] = PieceOf(store[vs].data, files[gen].key, f)]
<1> DEFINE t == [IdleTask EXCEPT !.st = "ok"]
           p == PieceOf(store[vs].data, files[gen].key, f)
<1>1. /\ batch[b].task[f].st = "writing" /\ SameMemory
      /\ UNCHANGED <<op, result, holders, saved, loadKey>>
  BY MemoryFrame DEF SaveFileEnd, FacadeInv, auxVars
<1>2. /\ batch[b].kind = "save" /\ batch[b].task[f] \in SaveTask /\ Saving /\ gen # None
      /\ f \in files[gen].loaded
      /\ batch[b].task[f].buf = p
  BY <1>1, WritersSave
<1>3. disk' = [disk EXCEPT ![f] = p]
  BY <1>2 DEF SaveFileEnd, SaveTask
<1>4. TaskBecomes(b, f, t)
  BY FinishFrame DEF SaveFileEnd
<1>5. t \in SaveTask /\ t.st = "ok"
  BY DEF SaveTask, IdleTask
<1>6. p \in Piece /\ p.sum \in Settling /\ p.data = p.sum[f]
  BY <1>2, PieceIsWhole
<1> HIDE DEF t, p
<1>7. disk' \in [File -> Piece] /\ disk'[f] = p /\ \A g \in File \ {f} : disk'[g] = disk[g]
  BY <1>3, <1>6 DEF FacadeInv, TypeInv
<1>8. FacadeInv'
  BY <1>1, <1>2, <1>4, <1>5, <1>6, <1>7, SaveTaskKeeps DEF p
<1>. QED
  BY <1>3, <1>8 DEF p

\* A write that fails leaves the torn piece and ends the task.
LEMMA SaveFileShortWriteKeeps ==
    ASSUME FacadeInv, NEW b \in Batches, NEW f \in File, SaveFileShortWrite(b, f)
    PROVE  FacadeInv'
<1> DEFINE t == [IdleTask EXCEPT !.st = "threw"]
<1>1. /\ batch[b].task[f].st = "writing" /\ SameMemory
      /\ UNCHANGED <<op, result, holders, saved, loadKey, disk>>
  BY MemoryFrame DEF SaveFileShortWrite, FacadeInv, auxVars
<1>2. batch[b].kind = "save"
  BY <1>1, WritersSave
<1>3. TaskBecomes(b, f, t)
  BY FinishFrame DEF SaveFileShortWrite
<1>4. t \in SaveTask /\ t.st = "threw"
  BY DEF SaveTask, IdleTask
<1> HIDE DEF t
<1>. QED
  BY <1>1, <1>2, <1>3, <1>4, SaveTaskKeeps DEF FacadeInv, TypeInv, PictureInv

\* A step of a LoadFile task changes the storage that is being loaded.
LEMMA LoadTaskKeeps ==
    ASSUME FacadeInv, NEW b \in Batches, NEW f \in File, NEW t \in LoadTask,
           batch[b].kind = "load", TaskBecomes(b, f, t),
           UNCHANGED <<config, opened, gen, vs, mvs, op, result, disk, holders, saved, loadKey>>,
           files' \in FilesType, store' \in StoreType,
           files'[gen].key = files[gen].key, files'[gen].vs = files[gen].vs
    PROVE  FacadeInv'
<1>1. TypeInv /\ BatchInv /\ Live(b)
  BY DEF FacadeInv, Live
<1>2. /\ batch' \in BatchType /\ BatchInv'
      /\ \A c \in Batches \ {b} : batch'[c] = batch[c]
      /\ \/ batch'[b].kind = "load"
         \/ op = Idle /\ \A c \in Batches : ~Live(c)'
  BY <1>1, TaskFrame
<1>3. TypeInv'
  BY <1>1, <1>2, TypesAfterTask DEF FacadeInv, TypeInv
<1>4. \A c \in Batches \ {b} : batch[c].kind = "none"
  BY <1>1 DEF BatchInv, Live
<1>5. ~Saving' /\ ~Calm' /\ ~Saving
  <2>1. ~Saving' /\ ~Saving
    BY <1>2, <1>4 DEF Saving, Live
  <2>2. ~(op = Idle /\ result = "ok")
    BY <1>1 DEF BatchInv
  <2>. QED
    BY <2>1, <2>2 DEF Calm
<1>6. gen # None
  BY <1>1, BatchKinds, StorageAssumption DEF BatchInv
<1>7. vs # None /\ vs # mvs /\ files[gen].vs = vs /\ files[gen].key \in Key
  BY <1>6 DEF FacadeInv, ObjectInv
<1>8. ObjectInv'
  <2>1. \A c \in Batches : batch'[c].kind = "load" => vs' # None /\ vs' # mvs' /\ files'[gen'].vs = vs'
    BY <1>7
  <2>2. opened' => gen' # None
    BY DEF FacadeInv, ObjectInv
  <2>3. /\ files'[gen'].key \in Key /\ files'[gen'].vs \in {vs', None}
        /\ files'[gen'].vs # None
    BY <1>7
  <2>. QED
    BY <1>5, <2>1, <2>2, <2>3 DEF ObjectInv
<1>9. PictureInv'
  <2>1. \A c \in Batches : batch'[c].kind # "save"
    BY <1>5 DEF Saving
  <2>. QED
    BY <1>5, <2>1 DEF FacadeInv, PictureInv
<1>. QED
  BY <1>2, <1>3, <1>8, <1>9 DEF FacadeInv

\* The batch of a Load uses the carriers of the last Open and the new storage.
LEMMA LoadBatchUses ==
    ASSUME FacadeInv, NEW b \in Batches, batch[b].kind = "load"
    PROVE  /\ Carriers(b) = files[gen] /\ batch[b].gen = gen /\ gen \in Gens /\ gen # None
           /\ Live(b) /\ files[gen].vs = vs /\ vs \in Stores /\ vs # mvs /\ vs # None
           /\ files[gen].key \in Key
           /\ \A f \in File : batch[b].task[f] \in LoadTask
<1>1. TypeInv /\ BatchInv /\ Live(b)
  BY DEF FacadeInv, Live
<1>2. batch[b].gen = gen /\ gen \in Gens /\ gen # None /\ batch[b] \in LoadBatch
  BY <1>1, BatchKinds, StorageAssumption DEF BatchInv
<1>3. vs # None /\ vs # mvs /\ files[gen].vs = vs /\ files[gen].key \in Key
  BY <1>2 DEF FacadeInv, ObjectInv
<1>. QED
  BY <1>1, <1>2, <1>3 DEF Carriers, TypeInv, LoadBatch

\* Steps of LoadFile that end without an extraction, or only begin.
LEMMA LoadFileQuietKeeps ==
    ASSUME FacadeInv, NEW b \in Batches, NEW f \in File,
           LoadFileSkip(b, f) \/ LoadFileBegin(b, f) \/ LoadFileThrow(b, f)
    PROVE  /\ FacadeInv' /\ SameMemory
           /\ batch[b].kind = "load" /\ UNCHANGED <<op, result, disk, auxVars>>
           /\ \E t \in LoadTask :
                 /\ TaskBecomes(b, f, t)
                 /\ t.st = "ok" => f \in files[gen].loaded
                 /\ t.st \in {"queued", "busy"} =>
                        f \notin files[gen].loaded
<1>1. TypeInv /\ BatchInv
  BY DEF FacadeInv
<1>2. /\ batch[b].kind = "load" /\ SameMemory
      /\ UNCHANGED <<op, result, disk, auxVars>>
  BY <1>1, MemoryFrame, MemoryUnchanged DEF LoadFileSkip, LoadFileBegin, LoadFileThrow
<1>3. Live(b) /\ Carriers(b) = files[gen] /\ gen \in Gens /\ gen # None
  BY <1>2, LoadBatchUses
<1>4. PICK st \in {"ok", "busy", "threw"} :
         /\ TaskBecomes(b, f, [IdleTask EXCEPT !.st = st])
         /\ st = "ok" => f \in files[gen].loaded
         /\ st = "busy" => f \notin files[gen].loaded
  <2>1. CASE LoadFileSkip(b, f)
    BY <1>3, <2>1, FinishFrame DEF LoadFileSkip
  <2>2. CASE LoadFileThrow(b, f)
    BY <2>2, FinishFrame DEF LoadFileThrow
  <2>3. CASE LoadFileBegin(b, f)
    <3>1. [IdleTask EXCEPT !.st = "busy"] \in LoadTask
      BY DEF IdleTask, LoadTask
    <3>. QED
      BY <1>1, <1>3, <2>3, <3>1, BeginFrame DEF LoadFileBegin
  <2>. QED
    BY <2>1, <2>2, <2>3
<1> DEFINE t == [IdleTask EXCEPT !.st = st]
<1>5. t \in LoadTask /\ t.st = st
  BY DEF LoadTask, IdleTask
<1> HIDE DEF t
<1>6. FacadeInv'
  BY <1>2, <1>3, <1>4, <1>5, LoadTaskKeeps DEF SameMemory, auxVars, t
<1>. QED
  BY <1>2, <1>4, <1>5, <1>6 DEF t

\* The extraction of a picture.
LEMMA LoadFileEndKeeps ==
    ASSUME FacadeInv, NEW b \in Batches, NEW f \in File, LoadFileEnd(b, f)
    PROVE  /\ FacadeInv'
           /\ batch[b].kind = "load"
           /\ UNCHANGED <<gen, vs, mvs, op, result, disk, auxVars>>
           /\ TaskBecomes(b, f, [IdleTask EXCEPT !.st = "ok"])
           /\ files'[gen] = [files[gen] EXCEPT !.loaded = @ \cup {f}]
           /\ LET share == Decode(disk[f], files[gen].key) IN
              store'[vs] = [store[vs] EXCEPT !.data[f] = share.data, !.sum[f] = share.sum]
<1> DEFINE share == Decode(disk[f], files[gen].key)
           t == [IdleTask EXCEPT !.st = "ok"]
           fs == [files EXCEPT ![gen].loaded = @ \cup {f}]
           st == [store EXCEPT ![vs].data[f] = share.data, ![vs].sum[f] = share.sum]
<1>1. /\ batch[b].kind = "load"
      /\ UNCHANGED <<config, opened, gen, vs, mvs, op, result, disk, auxVars>>
      /\ TaskBecomes(b, f, t)
  BY FinishFrame DEF LoadFileEnd
<1>2. /\ Carriers(b) = files[gen] /\ batch[b].gen = gen /\ gen \in Gens
      /\ files[gen].vs = vs /\ vs \in Stores
      /\ batch[b].task[f].raced = FALSE
  BY <1>1, LoadBatchUses DEF LoadTask
<1>3. FilesBecome(fs) /\ StoresBecome(st)
  BY <1>2 DEF LoadFileEnd
<1>4. files \in FilesType /\ store \in StoreType /\ disk[f] \in Piece
  BY DEF FacadeInv, TypeInv, FilesType, StoreType
<1>5. share.data \in Share /\ share.sum \in SumShare
  BY <1>4 DEF Decode, Piece, Share, SumShare
<1> HIDE DEF share
<1>6. /\ fs \in FilesType
      /\ fs[gen] = [files[gen] EXCEPT !.loaded = @ \cup {f}]
      /\ fs[gen].key = files[gen].key /\ fs[gen].vs = files[gen].vs
  BY <1>2, <1>4 DEF FilesType
<1>7. /\ st \in StoreType
      /\ st[vs] = [store[vs] EXCEPT !.data[f] = share.data, !.sum[f] = share.sum]
  <2> DEFINE old == store[vs]
             new == [old EXCEPT !.data[f] = share.data, !.sum[f] = share.sum]
  <2>1. old \in [data : Content, sum : [File -> SumShare]]
    BY <1>2, <1>4 DEF StoreType
  <2>2. /\ new.data = [old.data EXCEPT ![f] = share.data]
        /\ new.sum = [old.sum EXCEPT ![f] = share.sum]
    BY <2>1
  <2>3. new.data \in Content /\ new.sum \in [File -> SumShare]
    BY <1>5, <2>1, <2>2 DEF Content
  <2>4. st = [store EXCEPT ![vs] = new]
    BY <1>2, <1>4 DEF StoreType
  <2>5. new \in [data : Content, sum : [File -> SumShare]]
    BY <2>1, <2>3
  <2> HIDE DEF new, old
  <2>6. st \in StoreType /\ st[vs] = new
    BY <1>2, <1>4, <2>4, <2>5 DEF StoreType
  <2>. QED
    BY <2>6 DEF new, old
<1> HIDE DEF fs, st
<1>8. /\ files' \in FilesType /\ files'[gen] = fs[gen]
      /\ store' \in StoreType /\ store'[vs] = st[vs]
  BY <1>1, <1>2, <1>3, <1>6, <1>7, FilesFrame, StoresFrame
<1>9. t \in LoadTask
  BY DEF LoadTask, IdleTask
<1>10. FacadeInv'
  BY <1>1, <1>6, <1>8, <1>9, LoadTaskKeeps DEF auxVars
<1>. QED
  BY <1>1, <1>6, <1>7, <1>8, <1>10 DEF share

-----------------------------------------------------------------------------
(* The client, which makes no call after an exception.                     *)

\* When the client may call, nothing else is going on.
LEMMA CallsAreAlone ==
    ASSUME ~RetryAfterFailure, FacadeInv, MayCall
    PROVE  /\ op = Idle /\ result = "ok" /\ Calm /\ ~Saving
           /\ \A b \in Batches : batch[b] = NoBatch
           /\ vs = mvs
<1>1. op = Idle /\ result = "ok"
  BY DEF MayCall
<1>2. \A b \in Batches : ~Live(b)
  BY <1>1 DEF FacadeInv, BatchInv
<1>3. \A b \in Batches : batch[b] = NoBatch
  BY <1>2, BatchKinds DEF FacadeInv, Live
<1>. QED
  BY <1>1, <1>2, <1>3 DEF Calm, Saving, Live, FacadeInv, ObjectInv

\* A call that only ends well or with an exception, and changes no object.
LEMMA RefusedKeeps ==
    ASSUME ~RetryAfterFailure, FacadeInv, MayCall, result' \in {"ok", "threw"},
           config' \in Configs \cup {Unset},
           UNCHANGED <<opened, gen, files, vs, mvs, store, batch, op, disk, holders, saved, loadKey>>
    PROVE  FacadeInv'
<1>1. /\ op = Idle /\ ~Saving /\ Calm
      /\ \A b \in Batches : batch[b] = NoBatch
  BY CallsAreAlone
<1>2. TypeInv'
  BY DEF FacadeInv, TypeInv
<1>3. BatchInv'
  BY <1>1 DEF BatchInv, Live, NoBatch
<1>4. ObjectInv'
  BY <1>1 DEF FacadeInv, ObjectInv, Calm, Saving
<1>5. PictureInv'
  BY <1>1 DEF FacadeInv, PictureInv, Saving, NoBatch
<1>. QED
  BY <1>2, <1>3, <1>4, <1>5 DEF FacadeInv

\* Configure touches neither storage nor pictures.
LEMMA ConfigureKeeps ==
    ASSUME ~RetryAfterFailure, FacadeInv, NEW c \in Configs, Configure(c)
    PROVE  FacadeInv'
BY RefusedKeeps DEF Configure, auxVars

\* Nor does a Load or Save that is refused.
LEMMA CallRefusedKeeps ==
    ASSUME ~RetryAfterFailure, FacadeInv, LoadRefused \/ SaveRefused
    PROVE  FacadeInv'
<1>1. config \in Configs \cup {Unset}
  BY DEF FacadeInv, TypeInv
<1>. QED
  BY <1>1, RefusedKeeps DEF LoadRefused, SaveRefused, memoryVars, auxVars

\* Open, and Open that throws.
LEMMA OpenKeeps ==
    ASSUME ~RetryAfterFailure, FacadeInv, NEW p \in Passwords, Open(p)
    PROVE  FacadeInv' /\ (vs # None => store'[vs] = store[vs])
<1>1. /\ op = Idle /\ result = "ok" /\ ~Saving /\ Calm /\ vs = mvs
      /\ \A b \in Batches : batch[b] = NoBatch
      /\ TypeInv
  BY CallsAreAlone DEF Open, FacadeInv
<1>2. /\ opened' = TRUE /\ result' = "ok"
      /\ UNCHANGED <<batch, vs, mvs, config, op, disk, holders, saved, loadKey>>
  BY DEF Open, auxVars
<1> DEFINE key == [password |-> p, local |-> config, load |-> Unset]
           fs == [files EXCEPT ![gen'] = [key |-> key, loaded |-> {}, vs |-> None]]
<1>3. gen' \in Gens /\ gen' # None
  BY SomeOf, StorageAssumption DEF Open, FreeGens
<1>4. key \in Key
  BY <1>1 DEF TypeInv, Key
<1> HIDE DEF key
<1>5. fs \in FilesType /\ fs[gen'] = [key |-> key, loaded |-> {}, vs |-> None]
  BY <1>1, <1>3, <1>4 DEF TypeInv, FilesType
<1>6. FilesBecome(fs) /\ StoresBecome(store)
  BY DEF Open, key
<1>7. files' \in FilesType /\ files'[gen'] = [key |-> key, loaded |-> {}, vs |-> None]
  BY <1>3, <1>5, <1>6, FilesFrame
<1>8. store' \in StoreType /\ (vs # None => store'[vs] = store[vs])
  BY <1>1, <1>2, <1>6, StoresFrame DEF TypeInv, StoreType
<1>9. TypeInv'
  BY <1>1, <1>2, <1>3, <1>7, <1>8 DEF TypeInv, FilesType, StoreType
<1>10. BatchInv'
  BY <1>1, <1>2 DEF BatchInv, Live, NoBatch
<1>11. ObjectInv'
  <2>1. ~Saving' /\ \A b \in Batches : batch'[b].kind = "none"
    BY <1>1, <1>2 DEF Saving, NoBatch
  <2>. QED
    BY <1>1, <1>2, <1>3, <1>4, <1>7, <1>8, <2>1 DEF FacadeInv, ObjectInv
<1>12. PictureInv'
  BY <1>1, <1>2 DEF FacadeInv, PictureInv, Saving, NoBatch
<1>. QED
  BY <1>8, <1>9, <1>10, <1>11, <1>12 DEF FacadeInv

\* An Open that throws leaves the storage in use as it was.
LEMMA OpenThrowKeeps ==
    ASSUME ~RetryAfterFailure, FacadeInv, OpenThrow
    PROVE  FacadeInv' /\ (vs # None => store'[vs] = store[vs])
<1>1. /\ op = Idle /\ ~Saving /\ vs = mvs
      /\ \A b \in Batches : batch[b] = NoBatch
      /\ TypeInv
  BY CallsAreAlone DEF OpenThrow, FacadeInv
<1>2. /\ opened' = FALSE /\ result' = "threw" /\ gen' = None
      /\ UNCHANGED <<batch, vs, mvs, config, op, disk, holders, saved, loadKey>>
      /\ FilesBecome(files) /\ StoresBecome(store)
  BY DEF OpenThrow, auxVars
<1>3. /\ files' \in FilesType
      /\ store' \in StoreType /\ (vs # None => store'[vs] = store[vs])
  BY <1>1, <1>2, FilesFrame, StoresFrame DEF TypeInv, FilesType, StoreType
<1>4. TypeInv'
  BY <1>1, <1>2, <1>3 DEF TypeInv, FilesType, StoreType
<1>5. ~Calm' /\ ~Saving' /\ \A b \in Batches : batch'[b].kind = "none"
  BY <1>1, <1>2 DEF Calm, Saving, NoBatch
<1>6. BatchInv' /\ ObjectInv'
  BY <1>1, <1>2, <1>5 DEF BatchInv, ObjectInv, Live
<1>7. PictureInv'
  BY <1>1, <1>2, <1>5 DEF FacadeInv, PictureInv
<1>. QED
  BY <1>3, <1>4, <1>6, <1>7 DEF FacadeInv

\* A new batch of tasks.
LEMMA NewBatchTypes ==
    ASSUME gen \in Gens
    PROVE  NewBatch("load") \in LoadBatch /\ NewBatch("save") \in SaveBatch
<1>1. [IdleTask EXCEPT !.st = "queued"] \in LoadTask \cap SaveTask
  BY DEF IdleTask, LoadTask, SaveTask
<1>. QED
  BY <1>1 DEF NewBatch, LoadBatch, SaveBatch

\* The tasks of a new batch are queued and belong to the files in use.
LEMMA NewTaskQueued == ASSUME NEW kind, NEW f \in File
                       PROVE  NewBatch(kind).task[f].st = "queued" /\ NewBatch(kind).kind = kind
                              /\ NewBatch(kind).gen = gen
BY DEF NewBatch, IdleTask

\* Load makes a storage of its own and a batch of tasks that extract into it.
LEMMA LoadKeeps ==
    ASSUME ~RetryAfterFailure, FacadeInv, Load
    PROVE  /\ FacadeInv'
           /\ vs' # None /\ vs' # mvs /\ op' # Idle /\ op'.name = "load" /\ ~Saving'
           /\ gen' = gen /\ gen \in Gens
           /\ files'[gen].loaded = files[gen].loaded
           /\ op'.batch \in Batches /\ batch'[op'.batch] = NewBatch("load")
           /\ \A c \in Batches \ {op'.batch} : batch'[c] = NoBatch
<1> DEFINE b == Some(FreeBatches)
           s == Some(FreeStores)
           old == files[gen]
           new == [old EXCEPT !.vs = s, !.key.load = config]
           fs == [files EXCEPT ![gen] = new]
<1>1. /\ op = Idle /\ ~Saving /\ vs = mvs
      /\ \A c \in Batches : batch[c] = NoBatch
      /\ TypeInv
  BY CallsAreAlone DEF Load, FacadeInv
<1>2. b \in Batches /\ s \in Stores /\ s # mvs /\ s # None /\ b # None
  BY SomeOf, StorageAssumption DEF Load, FreeBatches, FreeStores
<1>3. gen \in Gens /\ gen # None /\ config \in Configs /\ opened
  BY <1>1 DEF Load, Ready, TypeInv, FacadeInv, ObjectInv
<1>4. /\ op' = [name |-> "load", batch |-> b]
      /\ batch' = [batch EXCEPT ![b] = NewBatch("load")]
      /\ vs' = s /\ loadKey' = None /\ result' = "ok"
      /\ UNCHANGED <<gen, mvs, config, opened, disk, holders, saved>>
      /\ StoresBecome(store)
      /\ FilesBecome([files EXCEPT ![gen].vs = s, ![gen].key.load = config])
  BY DEF Load, savingVars
<1> HIDE DEF b, s
<1>5. /\ files \in FilesType /\ store \in StoreType /\ batch \in BatchType
      /\ old \in [key : Key, loaded : SUBSET File, vs : Stores \cup {None}]
  BY <1>1, <1>3 DEF TypeInv, FilesType, StoreType, BatchType, FacadeInv, ObjectInv
<1>6. /\ new.key = [old.key EXCEPT !.load = config] /\ new.vs = s /\ new.loaded = old.loaded
      /\ new.key \in Key
      /\ new \in [key : Key, loaded : SUBSET File, vs : Stores \cup {None}]
  <2>1. old.key \in [password : Passwords, local : Configs \cup {Unset}, load : Configs \cup {Unset}]
    BY <1>5 DEF Key
  <2>2. [old.key EXCEPT !.load = config] \in Key
    BY <1>3, <2>1 DEF Key
  <2>3. /\ new.key = [old.key EXCEPT !.load = config] /\ new.vs = s /\ new.loaded = old.loaded
    BY <1>5
  <2>4. new \in [key : Key, loaded : SUBSET File, vs : Stores \cup {None}]
    BY <1>2, <1>5, <2>2, <2>3
  <2>. QED
    BY <2>2, <2>3, <2>4
<1>7. [files EXCEPT ![gen].vs = s, ![gen].key.load = config] = fs
  BY <1>3, <1>5 DEF FilesType
<1> HIDE DEF new, old
<1>8. fs \in FilesType /\ fs[gen] = new
  BY <1>3, <1>5, <1>6 DEF FilesType
<1>9. FilesBecome(fs)
  BY <1>4, <1>7
<1> HIDE DEF fs
<1>10. files' \in FilesType /\ files'[gen] = new /\ store' \in StoreType
  BY <1>3, <1>4, <1>5, <1>8, <1>9, FilesFrame, StoresFrame
<1>11. NewBatch("load") \in LoadBatch
  BY <1>3, NewBatchTypes
<1>12. /\ batch' \in BatchType /\ batch'[b] = NewBatch("load")
       /\ \A c \in Batches \ {b} : batch'[c] = NoBatch
  BY <1>1, <1>2, <1>4, <1>5, <1>11 DEF BatchType
<1>13. /\ batch'[b].kind = "load" /\ batch'[b].gen = gen
       /\ \A c \in Batches : c # b => batch'[c].kind = "none"
  BY <1>12 DEF NewBatch, NoBatch
<1>14. TypeInv'
  BY <1>1, <1>2, <1>3, <1>4, <1>10, <1>12 DEF TypeInv, FilesType, StoreType, BatchType
<1>15. op' # Idle /\ op'.name = "load" /\ op'.batch = b
  BY <1>4 DEF Idle
<1>16. BatchInv'
  BY <1>4, <1>13, <1>15 DEF BatchInv, Live
<1>17. ~Saving' /\ ~Calm'
  BY <1>2, <1>13, <1>15 DEF Saving, Calm
<1>18. ObjectInv'
  BY <1>2, <1>3, <1>4, <1>6, <1>10, <1>17 DEF ObjectInv
<1>19. PictureInv'
  BY <1>1, <1>4, <1>13, <1>17 DEF FacadeInv, PictureInv, Saving
<1>. QED
  BY <1>2, <1>3, <1>4, <1>6, <1>10, <1>12, <1>14, <1>15, <1>16, <1>17, <1>18, <1>19 DEF FacadeInv, old

\* Save puts the checksum in and makes a batch of tasks that embed what is stored.
LEMMA SaveKeeps ==
    ASSUME ~RetryAfterFailure, FacadeInv, Save
    PROVE  /\ FacadeInv' /\ Saving' /\ op' # Idle /\ vs' = vs /\ vs # None /\ vs = mvs
           /\ store'[vs].data = store[vs].data
           /\ op' = [name |-> "save", batch |-> Some(FreeBatches)]
<1> DEFINE b == Some(FreeBatches)
           data == store[vs].data
           new == [store[vs] EXCEPT !.sum = [f \in File |-> data]]
<1>1. /\ op = Idle /\ ~Saving /\ vs = mvs /\ Calm
      /\ \A c \in Batches : batch[c] = NoBatch
      /\ TypeInv
  BY CallsAreAlone DEF Save, FacadeInv
<1>2. b \in Batches /\ vs \in Stores /\ vs # None /\ gen \in Gens /\ gen # None
  <2>1. FreeBatches # {} /\ opened /\ vs # None
    BY DEF Save
  <2>2. b \in Batches
    BY <2>1, SomeOf DEF FreeBatches
  <2>. QED
    BY <1>1, <2>1, <2>2 DEF TypeInv, FacadeInv, ObjectInv
<1>3. /\ op' = [name |-> "save", batch |-> b]
      /\ batch' = [batch EXCEPT ![b] = NewBatch("save")]
      /\ store' = [store EXCEPT ![vs].sum = [f \in File |-> data]]
      /\ result' = "ok"
      /\ UNCHANGED <<config, opened, gen, files, vs, mvs, disk, holders, saved, loadKey>>
  BY <1>1 DEF Save
<1>4. op'.batch = b /\ op' = [name |-> "save", batch |-> Some(FreeBatches)]
  BY <1>3
<1> HIDE DEF b
<1>5. store \in StoreType /\ batch \in BatchType /\ data \in Settling /\ data \in Content
      /\ store[vs] \in [data : Content, sum : [File -> SumShare]]
  BY <1>1, <1>2 DEF TypeInv, StoreType, BatchType, FacadeInv, ObjectInv
<1> HIDE DEF data
<1>6. [f \in File |-> data] \in [File -> SumShare]
  BY <1>5 DEF SumShare
<1>7. /\ new \in [data : Content, sum : [File -> SumShare]]
      /\ new.data = data /\ new.sum = [f \in File |-> data]
  BY <1>5, <1>6 DEF data
<1>8. store' = [store EXCEPT ![vs] = new]
  BY <1>2, <1>3, <1>5 DEF StoreType
<1> HIDE DEF new
<1>9. store' \in StoreType /\ store'[vs] = new
  BY <1>2, <1>5, <1>7, <1>8 DEF StoreType
<1>10. NewBatch("save") \in SaveBatch
  BY <1>2, NewBatchTypes
<1>11. /\ batch' \in BatchType /\ batch'[b] = NewBatch("save")
       /\ \A c \in Batches \ {b} : batch'[c] = NoBatch
  BY <1>1, <1>2, <1>3, <1>5, <1>10 DEF BatchType
<1>12. /\ batch'[b].kind = "save" /\ batch'[b].gen = gen
       /\ \A c \in Batches : c # b => batch'[c].kind = "none"
       /\ \A f \in File : batch'[b].task[f].st = "queued"
  <2>1. \A f \in File : NewBatch("save").task[f].st = "queued"
    BY NewTaskQueued
  <2>. QED
    BY <1>11, <2>1 DEF NewBatch, NoBatch
<1>13. TypeInv'
  BY <1>1, <1>2, <1>3, <1>9, <1>11 DEF TypeInv, StoreType, BatchType
<1>14. op' # Idle /\ op'.name = "save"
  BY <1>3 DEF Idle
<1>15. BatchInv'
  BY <1>3, <1>4, <1>12, <1>14 DEF BatchInv, Live
<1>16. Saving'
  BY <1>2, <1>12 DEF Saving
<1>17. ObjectInv'
  <2>1. \A c \in Batches : batch'[c].kind # "load"
    BY <1>12
  <2>. QED
    BY <1>1, <1>2, <1>3, <1>5, <1>7, <1>9, <2>1 DEF FacadeInv, ObjectInv
<1>18. PictureInv'
  <2>1. ASSUME NEW c \in Batches, NEW f \in File, batch'[c].kind = "save"
        PROVE  SaveTaskInv(batch[c].task[f], f)'
    BY <1>12, <2>1 DEF SaveTaskInv
  <2>. QED
    BY <1>3, <1>14, <1>16, <2>1 DEF FacadeInv, PictureInv
<1>. QED
  BY <1>1, <1>2, <1>3, <1>4, <1>7, <1>9, <1>13, <1>14, <1>15, <1>16, <1>17, <1>18 DEF FacadeInv, data

\* Write changes the byte of one file's share.
LEMMA WriteKeeps ==
    ASSUME ~RetryAfterFailure, FacadeInv, NEW f \in File, NEW v \in Values, Write(f, v)
    PROVE  /\ FacadeInv' /\ vs' = vs /\ mvs' = vs
           /\ store'[vs].data = [store[vs].data EXCEPT ![f] = v]
<1> DEFINE new == [store[vs] EXCEPT !.data = [store[vs].data EXCEPT ![f] = v]]
<1>1. /\ op = Idle /\ ~Saving /\ vs = mvs /\ Calm
      /\ \A c \in Batches : batch[c] = NoBatch
      /\ TypeInv
  BY CallsAreAlone DEF Write, FacadeInv
<1>2. /\ vs \in Stores /\ vs # None
      /\ store' = [store EXCEPT ![vs].data[f] = v]
      /\ result' = "ok"
      /\ UNCHANGED <<config, opened, gen, files, vs, mvs, batch, op, disk, holders, saved, loadKey>>
  BY <1>1 DEF Write, TypeInv, auxVars
<1>3. store \in StoreType /\ store[vs].data \in Settling
      /\ store[vs] \in [data : Content, sum : [File -> SumShare]]
  BY <1>1, <1>2 DEF TypeInv, StoreType, FacadeInv, ObjectInv
<1>4. /\ [store[vs].data EXCEPT ![f] = v] \in Settling
      /\ [store[vs].data EXCEPT ![f] = v] \in Content
  BY <1>3 DEF Settling, Content, Share
<1>5. new \in [data : Content, sum : [File -> SumShare]]
      /\ new.data = [store[vs].data EXCEPT ![f] = v]
  BY <1>3, <1>4
<1>6. store' = [store EXCEPT ![vs] = new]
  BY <1>2, <1>3 DEF StoreType
<1> HIDE DEF new
<1>7. store' \in StoreType /\ store'[vs] = new
  BY <1>2, <1>3, <1>5, <1>6 DEF StoreType
<1>8. TypeInv'
  BY <1>1, <1>2, <1>7 DEF TypeInv, StoreType
<1>9. BatchInv'
  BY <1>1, <1>2 DEF BatchInv, Live, NoBatch
<1>10. ObjectInv'
  <2>1. ~Saving' /\ \A c \in Batches : batch'[c].kind = "none"
    BY <1>1, <1>2 DEF Saving, NoBatch
  <2>. QED
    BY <1>1, <1>2, <1>4, <1>5, <1>7, <2>1 DEF FacadeInv, ObjectInv
<1>11. PictureInv'
  BY <1>1, <1>2 DEF FacadeInv, PictureInv, Saving, NoBatch
<1>. QED
  BY <1>1, <1>2, <1>5, <1>7, <1>8, <1>9, <1>10, <1>11 DEF FacadeInv

-----------------------------------------------------------------------------
(* The end of a call, and of the process.                                  *)

\* The batch of the call in progress is the only one.
LEMMA CallBatch ==
    ASSUME FacadeInv, op # Idle
    PROVE  /\ op.batch \in Batches /\ op.batch # None /\ batch[op.batch].kind = op.name
           /\ op.name \in {"load", "save"} /\ result = "ok"
           /\ batch[op.batch].gen = gen /\ gen \in Gens /\ gen # None
           /\ \A c \in Batches \ {op.batch} : batch[c] = NoBatch
           /\ op.name = "save" <=> Saving
<1>1. /\ op.batch \in Batches /\ batch[op.batch].kind = op.name /\ op.name \in {"load", "save"}
      /\ result = "ok"
  BY OpKinds DEF FacadeInv, BatchInv
<1>2. Live(op.batch)
  BY <1>1 DEF Live
<1>3. \A c \in Batches \ {op.batch} : batch[c].kind = "none" /\ batch[c] = NoBatch
  BY <1>1, <1>2, BatchKinds DEF FacadeInv, BatchInv, Live
<1>4. batch[op.batch].gen = gen /\ gen \in Gens
  BY <1>1, <1>2, BatchKinds DEF FacadeInv, BatchInv
<1>. QED
  BY <1>1, <1>3, <1>4, StorageAssumption DEF Saving

\* What was never written or extracted becomes content.
LEMMA SettledTypes ==
    ASSUME NEW s, s \in [data : Content, sum : [File -> SumShare]]
    PROVE  /\ Settled(s).data \in Settling
           /\ Settled(s) \in [data : Content, sum : [File -> SumShare]]
<1>1. Settled(s).data \in Settling
  BY DEF Settled, Settling, Content, Share
<1>2. Settled(s).data \in Content
  BY <1>1 DEF Settling, Content, Share
<1>. QED
  BY <1>1, <1>2 DEF Settled, SumShare

\* Load returns when its tasks are done, with the storage they have filled.
LEMMA LoadReturnKeeps ==
    ASSUME FacadeInv, LoadReturn
    PROVE  /\ FacadeInv' /\ ~Saving' /\ ~Saving
           /\ vs' = vs /\ mvs' = vs /\ vs \in Stores /\ vs # None
           /\ store'[vs] = Settled(store[vs])
           /\ loadKey' = files[gen].key /\ files[gen].key \in Key
<1> DEFINE b == op.batch
           st == [store EXCEPT ![vs] = Settled(store[vs])]
<1>1. op # Idle /\ op.name = "load" /\ TypeInv
  BY DEF LoadReturn, Idle, FacadeInv
<1>2. /\ b \in Batches /\ batch[b].kind = "load" /\ result = "ok" /\ gen \in Gens /\ gen # None
      /\ \A c \in Batches \ {b} : batch[c] = NoBatch
      /\ ~Saving
  BY <1>1, CallBatch
<1>3. /\ vs \in Stores /\ vs # None /\ files[gen].vs = vs /\ files[gen].key \in Key
  BY <1>2, LoadBatchUses
<1>4. /\ op' = Idle /\ batch' = [batch EXCEPT ![b] = NoBatch] /\ mvs' = vs
      /\ loadKey' = files[gen].key
      /\ UNCHANGED <<config, opened, gen, vs, result, disk, holders, saved>>
      /\ FilesBecome(files) /\ StoresBecome(st)
  BY DEF LoadReturn
<1>5. files \in FilesType /\ store \in StoreType /\ batch \in BatchType
  BY <1>1 DEF TypeInv, FilesType, StoreType, BatchType
<1>6. /\ Settled(store[vs]) \in [data : Content, sum : [File -> SumShare]]
      /\ Settled(store[vs]).data \in Settling
  BY <1>3, <1>5, SettledTypes DEF StoreType
<1>7. st \in StoreType /\ st[vs] = Settled(store[vs])
  BY <1>3, <1>5, <1>6 DEF StoreType
<1> HIDE DEF b, st
<1>8. /\ files' \in FilesType /\ files'[gen] = files[gen]
      /\ store' \in StoreType /\ store'[vs] = Settled(store[vs])
  BY <1>2, <1>3, <1>4, <1>5, <1>7, FilesFrame, StoresFrame
<1>9. batch' \in BatchType /\ \A c \in Batches : batch'[c] = NoBatch
  BY <1>2, <1>4, <1>5 DEF BatchType
<1>10. TypeInv'
  BY <1>1, <1>3, <1>4, <1>8, <1>9 DEF TypeInv, FilesType, StoreType, BatchType
<1>11. \A c \in Batches : batch'[c].kind = "none"
  BY <1>9 DEF NoBatch
<1>12. BatchInv' /\ ~Saving'
  BY <1>4, <1>11 DEF BatchInv, Live, Saving
<1>13. ObjectInv'
  BY <1>2, <1>3, <1>4, <1>6, <1>8, <1>11, <1>12 DEF FacadeInv, ObjectInv
<1>14. PictureInv'
  BY <1>2, <1>4, <1>11, <1>12 DEF FacadeInv, PictureInv
<1>. QED
  BY <1>2, <1>3, <1>4, <1>8, <1>10, <1>12, <1>13, <1>14 DEF FacadeInv

\* A batch of which every task is done disappears with the call.
LEMMA BatchGoes ==
    ASSUME NEW b, op' = Idle, b # None, BatchBecomes(b, batch[b])
    PROVE  /\ Ended(batch[b]) => batch' = [batch EXCEPT ![b] = NoBatch]
           /\ ~Ended(batch[b]) => batch' = [batch EXCEPT ![b] = batch[b]]
BY DEF BatchBecomes, Idle

\* Save returns when its tasks are done, with the volume in the pictures.
LEMMA SaveReturnKeeps ==
    ASSUME FacadeInv, SaveReturn
    PROVE  /\ FacadeInv' /\ ~Saving' /\ Saving /\ result = "ok" /\ result' = "ok"
           /\ vs' = vs /\ mvs' = vs /\ mvs = vs /\ vs # None
           /\ store'[vs] = store[vs]
           /\ saved' = [content |-> store[vs].data, key |-> files[gen].key]
           /\ saved'.key \in Key /\ files[gen].key = loadKey
           /\ \A f \in File : disk[f] = PieceOf(store[vs].data, files[gen].key, f)
<1> DEFINE b == op.batch
<1>1. op # Idle /\ op.name = "save" /\ AllOk(b) /\ TypeInv
  BY DEF SaveReturn, Idle, FacadeInv
<1>2. /\ b \in Batches /\ b # None /\ batch[b].kind = "save" /\ result = "ok"
      /\ gen \in Gens /\ gen # None
      /\ \A c \in Batches \ {b} : batch[c] = NoBatch
      /\ Saving
  BY <1>1, CallBatch
<1>3. /\ vs # None /\ mvs = vs /\ vs \in Stores /\ store[vs].data \in Settling
      /\ files[gen].key \in Key
  BY <1>2 DEF FacadeInv, TypeInv, ObjectInv, Calm
<1>4. /\ op' = Idle
      /\ saved' = [content |-> store[vs].data, key |-> files[gen].key]
      /\ UNCHANGED <<config, opened, gen, vs, mvs, result, disk, holders, loadKey>>
      /\ FilesBecome(files) /\ StoresBecome(store) /\ BatchBecomes(b, batch[b])
  BY <1>3 DEF SaveReturn
<1>5. \A f \in File : /\ disk[f] = PieceOf(store[vs].data, files[gen].key, f)
                      /\ f \in files[gen].loaded
  <2>1. \A f \in File : batch[b].task[f].st = "ok" /\ SaveTaskInv(batch[b].task[f], f)
    BY <1>1, <1>2 DEF AllOk, FacadeInv, PictureInv
  <2>. QED
    BY <2>1 DEF SaveTaskInv
<1>6. files[gen].key = loadKey
  <2>1. 1 \in File
    BY StorageAssumption DEF File
  <2>. QED
    BY <1>2, <1>5, <2>1 DEF FacadeInv, ObjectInv, Calm
<1>7. Ended(batch[b])
  BY <1>1 DEF AllOk, Ended
<1>8. batch' = [batch EXCEPT ![b] = NoBatch]
  BY <1>2, <1>4, <1>7, BatchGoes
<1>9. batch \in BatchType
  BY <1>1 DEF TypeInv, BatchType
<1> HIDE DEF b
<1>10. batch' \in BatchType /\ \A c \in Batches : batch'[c] = NoBatch
  BY <1>2, <1>8, <1>9 DEF BatchType
<1>11. /\ files' \in FilesType /\ files'[gen] = files[gen]
       /\ store' \in StoreType /\ store'[vs] = store[vs]
  BY <1>1, <1>2, <1>3, <1>4, MemoryFrame DEF SameMemory
<1>12. TypeInv'
  BY <1>1, <1>3, <1>4, <1>10, <1>11 DEF TypeInv, FilesType, StoreType, BatchType
<1>13. \A c \in Batches : batch'[c].kind = "none"
  BY <1>10 DEF NoBatch
<1>14. BatchInv' /\ ~Saving'
  BY <1>4, <1>13 DEF BatchInv, Live, Saving
<1>15. ObjectInv'
  BY <1>2, <1>3, <1>4, <1>6, <1>11, <1>13, <1>14 DEF FacadeInv, ObjectInv, Calm
<1>16. PictureInv'
  BY <1>2, <1>4, <1>5, <1>13, <1>14 DEF FacadeInv, PictureInv
<1>. QED
  BY <1>2, <1>3, <1>4, <1>5, <1>6, <1>11, <1>12, <1>14, <1>15, <1>16 DEF FacadeInv

\* The call throws; its other tasks go on.
LEMMA CallThrowKeeps ==
    ASSUME FacadeInv, CallThrow
    PROVE  /\ FacadeInv' /\ SameMemory /\ op # Idle /\ op' = Idle /\ result' = "threw"
           /\ \/ \A c \in Batches : batch'[c] = NoBatch
              \/ batch' = batch
<1> DEFINE b == op.batch
<1>1. op # Idle /\ TypeInv /\ BatchInv
  BY DEF CallThrow, Idle, FacadeInv
<1>2. /\ b \in Batches /\ b # None /\ batch[b].kind = op.name /\ op.name \in {"load", "save"}
      /\ gen \in Gens /\ gen # None
      /\ \A c \in Batches \ {b} : batch[c] = NoBatch
      /\ op.name = "save" <=> Saving
  BY <1>1, CallBatch
<1>3. /\ op' = Idle /\ result' = "threw"
      /\ saved' = IF op.name = "save" THEN None ELSE saved
      /\ UNCHANGED <<config, opened, gen, vs, mvs, disk, holders, loadKey>>
      /\ FilesBecome(files) /\ StoresBecome(store) /\ BatchBecomes(b, batch[b])
  BY DEF CallThrow
<1>4. SameMemory
  BY <1>1, <1>3, MemoryFrame
<1>5. batch \in BatchType
  BY <1>1 DEF TypeInv, BatchType
<1>6. batch' = [batch EXCEPT ![b] = NoBatch] \/ batch' = [batch EXCEPT ![b] = batch[b]]
  BY <1>2, <1>3, BatchGoes
<1> HIDE DEF b
<1>7. (\A c \in Batches : batch'[c] = NoBatch) \/ batch' = batch
  BY <1>2, <1>5, <1>6 DEF BatchType
<1>8. batch' \in BatchType
  BY <1>2, <1>5, <1>6 DEF BatchType
<1>9. TypeInv'
  BY <1>1, <1>3, <1>4, <1>8 DEF TypeInv, FilesType, StoreType, BatchType, SameMemory
<1>10. NoBatch.kind = "none"
  BY DEF NoBatch
<1>11. BatchInv'
  BY <1>1, <1>3, <1>7, <1>10 DEF BatchInv, Live
<1>12. (Saving' => Saving) /\ (Calm' <=> Saving')
  BY <1>3, <1>7, <1>10 DEF Saving, Calm
<1>13. \A c \in Batches : batch'[c].kind # "none" => batch'[c] = batch[c]
  BY <1>7, <1>10
<1>14. ObjectInv'
  <2>1. \A c \in Batches : batch'[c].kind = "load" => vs # None /\ vs # mvs /\ files[gen].vs = vs
    BY <1>13 DEF FacadeInv, ObjectInv
  <2>2. Saving => vs # None
    BY DEF FacadeInv, ObjectInv
  <2>3. loadKey' = loadKey
    BY <1>3
  <2>4. Saving' => /\ vs' = mvs' /\ store'[vs'].data \in Settling
                   /\ store'[vs'].sum = [f \in File |-> store'[vs'].data]
                   /\ gen' # None /\ files'[gen'].loaded # {} => files'[gen'].key = loadKey'
    BY <1>4, <1>12, <2>2, <2>3 DEF FacadeInv, ObjectInv, Calm, SameMemory
  <2>5. /\ opened' => gen' # None
        /\ gen' # None =>
              /\ files'[gen'].key \in Key
              /\ files'[gen'].vs \in {vs', None}
              /\ files'[gen'].vs = None => files'[gen'].loaded = {}
    BY <1>4 DEF FacadeInv, ObjectInv, SameMemory
  <2>6. \A c \in Batches : batch'[c].kind = "load" =>
             vs' # None /\ vs' # mvs' /\ files'[gen'].vs = vs'
    BY <1>2, <1>4, <2>1 DEF SameMemory
  <2>7. Saving' => vs' # None
    BY <1>4, <1>12, <2>2 DEF SameMemory
  <2>. QED
    BY <1>12, <2>4, <2>5, <2>6, <2>7 DEF ObjectInv
<1>15. PictureInv'
  <2>1. ASSUME NEW c \in Batches, NEW f \in File, batch'[c].kind = "save"
        PROVE  SaveTaskInv(batch[c].task[f], f)'
    <3>1. batch'[c] = batch[c] /\ Saving /\ vs # None
      BY <1>13, <2>1 DEF Saving, FacadeInv, ObjectInv
    <3>2. SaveTaskInv(batch[c].task[f], f)
      BY <2>1, <3>1 DEF FacadeInv, PictureInv
    <3>. QED
      BY <1>2, <1>3, <1>4, <3>1, <3>2 DEF SaveTaskInv, SameMemory
  <2>2. saved' # None => saved' = saved /\ ~Saving
    BY <1>2, <1>3
  <2>3. Saving' => saved' = None
    BY <1>2, <1>3, <1>12
  <2>. QED
    BY <1>3, <2>1, <2>2, <2>3 DEF FacadeInv, PictureInv
<1>. QED
  BY <1>1, <1>3, <1>4, <1>7, <1>9, <1>11, <1>14, <1>15 DEF FacadeInv

\* A new process has lost everything but the pictures.
LEMMA RestartKeeps ==
    ASSUME FacadeInv, Restart
    PROVE  FacadeInv' /\ ~Saving' /\ vs' = None /\ op' = Idle
<1>1. /\ config' = Unset /\ opened' = FALSE /\ gen' = None /\ vs' = None /\ mvs' = None
      /\ files' = [g \in Gens |-> NoCarriers]
      /\ store' = [s \in Stores |-> NoStorage]
      /\ batch' = [c \in Batches |-> NoBatch]
      /\ op' = Idle /\ result' = "ok" /\ loadKey' = None
      /\ saved' = IF Saving THEN None ELSE saved
      /\ UNCHANGED <<disk, holders>>
  BY DEF Restart, Saving
<1>2. TypeInv'
  <2>1. NoCarriers \in [key : Key \cup {None}, loaded : SUBSET File, vs : Stores \cup {None}]
    BY DEF NoCarriers
  <2>2. NoStorage \in [data : Content, sum : [File -> SumShare]]
    BY DEF NoStorage, Content, Share, SumShare
  <2>. QED
    BY <1>1, <2>1, <2>2 DEF FacadeInv, TypeInv
<1>3. \A c \in Batches : batch'[c].kind = "none"
  BY <1>1 DEF NoBatch
<1>4. ~Saving'
  BY <1>3 DEF Saving
<1>5. BatchInv' /\ ObjectInv'
  BY <1>1, <1>3, <1>4 DEF BatchInv, ObjectInv, Live
<1>6. PictureInv'
  BY <1>1, <1>3, <1>4 DEF FacadeInv, PictureInv
<1>. QED
  BY <1>1, <1>2, <1>4, <1>5, <1>6 DEF FacadeInv

-----------------------------------------------------------------------------
(* The invariant, and what follows from it.                                *)

\* The invariant holds in the beginning.
LEMMA FacadeInit == Init => FacadeInv
<1> SUFFICES ASSUME Init PROVE FacadeInv
  OBVIOUS
<1>1. /\ config = Unset /\ opened = FALSE /\ gen = None /\ vs = None /\ mvs = None
      /\ files = [g \in Gens |-> NoCarriers] /\ store = [s \in Stores |-> NoStorage]
      /\ batch = [c \in Batches |-> NoBatch] /\ op = Idle /\ result = "ok"
      /\ disk = [f \in File |-> Foreign] /\ holders \in (SUBSET File) \ {{}}
      /\ saved = None /\ loadKey = None
  BY DEF Init, EmptyMemory
<1>2. TypeInv
  <2>1. NoCarriers \in [key : Key \cup {None}, loaded : SUBSET File, vs : Stores \cup {None}]
    BY DEF NoCarriers
  <2>2. NoStorage \in [data : Content, sum : [File -> SumShare]]
    BY DEF NoStorage, Content, Share, SumShare
  <2>3. /\ config \in Configs \cup {Unset} /\ opened \in BOOLEAN /\ gen \in Gens \cup {None}
        /\ vs \in Stores \cup {None} /\ mvs \in Stores \cup {None}
        /\ op \in {Idle} \cup [name : {"load", "save"}, batch : Batches]
        /\ result \in {"ok", "threw"}
        /\ saved \in {None} \cup [content : Settling, key : Key] /\ loadKey \in Key \cup {None}
    BY <1>1
  <2>8. holders \subseteq File /\ holders # {}
    BY <1>1
  <2>4. files \in [Gens -> [key : Key \cup {None}, loaded : SUBSET File, vs : Stores \cup {None}]]
    BY <1>1, <2>1
  <2>5. store \in [Stores -> [data : Content, sum : [File -> SumShare]]]
    BY <1>1, <2>2
  <2>6. batch \in [Batches -> {NoBatch} \cup LoadBatch \cup SaveBatch]
    BY <1>1
  <2>7. disk \in [File -> Piece]
    BY <1>1, ForeignIsPiece
  <2>. QED
    BY <2>3, <2>4, <2>5, <2>6, <2>7, <2>8 DEF TypeInv
<1>3. \A c \in Batches : batch[c].kind = "none"
  BY <1>1 DEF NoBatch
<1>4. BatchInv /\ ObjectInv
  BY <1>1, <1>3 DEF BatchInv, ObjectInv, Live, Saving
<1>5. PictureInv
  BY <1>1, <1>3, ForeignIsPiece DEF PictureInv, Saving
<1>. QED
  BY <1>2, <1>4, <1>5 DEF FacadeInv

\* Every step of such a client, of its tasks, and every crash keep it.
LEMMA FacadeNext ==
    ASSUME ~RetryAfterFailure, FacadeInv, [Next]_vars
    PROVE  FacadeInv'
<1>1. CASE UNCHANGED vars
  BY <1>1 DEF vars, memoryVars, auxVars, FacadeInv, TypeInv, BatchInv, ObjectInv, PictureInv,
              SaveTaskInv, Live, Saving, Calm
<1>2. CASE Client
  BY <1>2, ConfigureKeeps, OpenKeeps, OpenThrowKeeps, CallRefusedKeeps, LoadKeeps, SaveKeeps,
     WriteKeeps DEF Client
<1>3. ASSUME NEW b \in Batches, NEW f \in File, Task(b, f)
      PROVE  FacadeInv'
  BY <1>3, LoadFileQuietKeeps, LoadFileEndKeeps, SaveFileThrowKeeps, SaveFileEmbedKeeps,
     SaveFileWriteKeeps, SaveFileEndKeeps, SaveFileShortWriteKeeps DEF Task
<1>4. CASE Return
  BY <1>4, LoadReturnKeeps, SaveReturnKeeps, CallThrowKeeps DEF Return
<1>. QED
  BY <1>1, <1>2, <1>3, <1>4, RestartKeeps DEF Next

\* The invariant of the facade, for a client that gives up after an exception.
THEOREM FacadeInvariant == ASSUME ~RetryAfterFailure PROVE Spec => []FacadeInv
<1>1. Init => FacadeInv
  BY FacadeInit
<1>2. FacadeInv /\ [Next]_vars => FacadeInv'
  BY FacadeNext
<1>. QED
  BY <1>1, <1>2, PTL DEF Spec

\* The pieces that the tasks of SaveFile carry to the pictures are of one
\* content and carry its checksum, however the tasks interleave.
THEOREM PiecesAreOfOneContent ==
    ASSUME ~RetryAfterFailure PROVE Spec => []OneContentPerSave
<1>1. FacadeInv => OneContentPerSave
  <2>1. SUFFICES ASSUME FacadeInv, NEW b \in Batches, NEW f \in File,
                        batch[b].task[f].st \in {"embedded", "writing"}
                 PROVE  /\ mvs # None
                        /\ batch[b].task[f].buf.sum = store[mvs].data
                        /\ batch[b].task[f].buf.data = store[mvs].data[f]
    BY DEF OneContentPerSave
  <2>2. Saving /\ batch[b].task[f].buf = PieceOf(store[vs].data, files[gen].key, f)
    BY <2>1, WritersSave
  <2>3. vs = mvs /\ vs # None
    BY <2>1, <2>2 DEF FacadeInv, ObjectInv, Calm
  <2>. QED
    BY <2>2, <2>3 DEF PieceOf
<1>. QED
  BY <1>1, FacadeInvariant, PTL

\* Pictures that carry the pieces of one content, under one key, are a volume.
LEMMA WholeVolume ==
    ASSUME NEW content, content \in Settling, NEW key \in Key, holders \subseteq File,
           \A f \in File : disk[f] = PieceOf(content, key, f)
    PROVE  Sealed /\ OnDisk = content /\ Volume = [content |-> content, key |-> key]
<1>1. 1 \in File /\ key # None
  BY StorageAssumption, MarkerAssumption DEF File
<1>2. ASSUME NEW f \in File
      PROVE  disk[f].data = content[f] /\ disk[f].sum = content /\ disk[f].key = key
  <2>1. disk[f] = PieceOf(content, key, f)
    OBVIOUS
  <2>2. /\ PieceOf(content, key, f).data = content[f] /\ PieceOf(content, key, f).sum = content
        /\ PieceOf(content, key, f).key = key
    BY DEF PieceOf
  <2>. QED
    BY <2>1, <2>2
<1>3. OnDisk = content
  BY <1>2 DEF OnDisk, Settling
<1>4. Sealed
  BY <1>1, <1>2, <1>3 DEF Sealed
<1>. QED
  BY <1>1, <1>2, <1>3, <1>4 DEF Volume

\* What the last Save that returned stored stays in the pictures, complete and
\* under its key, through Opens, Loads, failures and crashes.
THEOREM SavedStays == ASSUME ~RetryAfterFailure PROVE Spec => []SavedIsDurable
<1>1. FacadeInv => SavedIsDurable
  <2>1. SUFFICES ASSUME FacadeInv, saved # None, ~Saving
                 PROVE  Volume = saved
    BY DEF SavedIsDurable, Saving
  <2>2. /\ saved \in [content : Settling, key : Key] /\ holders \subseteq File
        /\ \A f \in File : disk[f] = PieceOf(saved.content, saved.key, f)
    BY <2>1 DEF FacadeInv, TypeInv, PictureInv
  <2>3. Volume = [content |-> saved.content, key |-> saved.key]
    BY <2>2, WholeVolume
  <2>. QED
    BY <2>2, <2>3
<1>. QED
  BY <1>1, FacadeInvariant, PTL

-----------------------------------------------------------------------------
(* What the steps of the tasks leave alone.                                *)

\* A task's step keeps the kinds of the batches, or ends the one it belongs to.
LEMMA TaskKinds ==
    ASSUME TypeInv, NEW b \in Batches, NEW f \in File, NEW t,
           TaskBecomes(b, f, t) \/ Begin(b, f, t)
    PROVE  \/ \A c \in Batches : batch'[c].kind = batch[c].kind
           \/ /\ batch'[b] = NoBatch /\ op.batch # b
              /\ \A c \in Batches \ {b} : batch'[c] = batch[c]
<1>1. batch \in BatchType
  BY DEF TypeInv, BatchType
<1>2. ASSUME NEW c \in Batches, NEW u
      PROVE  [batch[c] EXCEPT !.task[f] = u].kind = batch[c].kind
  BY <1>1 DEF BatchType, NoBatch, LoadBatch, SaveBatch
<1>3. ASSUME NEW c \in Batches, NEW u
      PROVE  [batch[c] EXCEPT !.task[f].raced = u].kind = batch[c].kind
  BY <1>1 DEF BatchType, NoBatch, LoadBatch, SaveBatch
<1>4. CASE Begin(b, f, t)
  BY <1>2, <1>3, <1>4 DEF Begin, Step
<1>5. CASE TaskBecomes(b, f, t)
  <2> DEFINE new == Step(b, f, t)
  <2>1. new.kind = batch[b].kind
    BY <1>2 DEF Step
  <2>2. \/ batch' = [batch EXCEPT ![b] = new]
        \/ batch' = [batch EXCEPT ![b] = NoBatch] /\ op.batch # b
    BY <1>5 DEF TaskBecomes
  <2> HIDE DEF new
  <2>. QED
    BY <1>1, <2>1, <2>2 DEF BatchType
<1>. QED
  BY <1>4, <1>5

SaveTaskStep(b, f) ==
    \/ SaveFileThrow(b, f) \/ SaveFileEmbed(b, f) \/ SaveFileWrite(b, f)
    \/ SaveFileEnd(b, f) \/ SaveFileShortWrite(b, f)

\* A task of SaveFile has its batch, which is the only one.
LEMMA SaveTaskBatch ==
    ASSUME FacadeInv, NEW b \in Batches, NEW f \in File, SaveTaskStep(b, f)
    PROVE  /\ batch[b].kind = "save" /\ Saving
           /\ \A c \in Batches : batch'[c].kind \in {"save", "none"}
           /\ Saving' \/ (op = Idle /\ result = "threw" /\ ~Saving')
<1>1. TypeInv /\ BatchInv
  BY DEF FacadeInv
<1>2. /\ batch[b].kind = "save"
      /\ \E t : TaskBecomes(b, f, t) \/ Begin(b, f, t)
  <2>1. CASE SaveFileThrow(b, f)
    BY <2>1, FinishFrame DEF SaveFileThrow
  <2>2. CASE SaveFileEmbed(b, f)
    BY <2>2 DEF SaveFileEmbed
  <2>3. CASE SaveFileWrite(b, f)
    <3>1. batch' = [batch EXCEPT ![b] = Step(b, f, [batch[b].task[f] EXCEPT !.st = "writing"])]
      BY <2>3 DEF SaveFileWrite, Step
    <3>2. TaskBecomes(b, f, [batch[b].task[f] EXCEPT !.st = "writing"])
      BY <3>1 DEF TaskBecomes
    <3>. QED
      BY <2>3, <3>2, WritersSave DEF SaveFileWrite
  <2>4. CASE SaveFileEnd(b, f)
    BY <2>4, FinishFrame, WritersSave DEF SaveFileEnd
  <2>5. CASE SaveFileShortWrite(b, f)
    BY <2>5, FinishFrame, WritersSave DEF SaveFileShortWrite
  <2>. QED
    BY <2>1, <2>2, <2>3, <2>4, <2>5 DEF SaveTaskStep
<1>3. \A c \in Batches \ {b} : batch[c].kind = "none"
  BY <1>1, <1>2 DEF BatchInv, Live
<1>4. PICK t : TaskBecomes(b, f, t) \/ Begin(b, f, t)
  BY <1>2
<1>5. \/ \A c \in Batches : batch'[c].kind = batch[c].kind
      \/ /\ batch'[b] = NoBatch /\ op.batch # b
         /\ \A c \in Batches \ {b} : batch'[c] = batch[c]
  BY <1>1, <1>4, TaskKinds
<1>6. CASE \A c \in Batches : batch'[c].kind = batch[c].kind
  BY <1>2, <1>3, <1>6 DEF Saving
<1>7. CASE /\ batch'[b] = NoBatch /\ op.batch # b
           /\ \A c \in Batches \ {b} : batch'[c] = batch[c]
  <2>1. \A c \in Batches : batch'[c].kind = "none"
    BY <1>3, <1>7 DEF NoBatch
  <2>2. op = Idle
    <3>1. SUFFICES ASSUME op # Idle PROVE FALSE
      OBVIOUS
    <3>2. op.batch \in Batches /\ batch[op.batch].kind = op.name /\ op.name # "none"
      BY <1>1, <3>1, OpKinds DEF BatchInv
    <3>. QED
      BY <1>3, <1>7, <3>2
  <2>3. result = "threw"
    BY <1>1, <1>2, <2>2 DEF BatchInv, Live, TypeInv
  <2>. QED
    BY <1>2, <2>1, <2>2, <2>3 DEF Saving
<1>. QED
  BY <1>5, <1>6, <1>7

\* Of the memory it changes nothing, and of the pictures at most its own.
LEMMA SaveTaskFrame ==
    ASSUME FacadeInv, NEW b \in Batches, NEW f \in File, SaveTaskStep(b, f)
    PROVE  /\ FacadeInv' /\ SameMemory
           /\ UNCHANGED <<op, result, auxVars>>
           /\ \/ disk' = disk
              \/ /\ f \in files[gen].loaded /\ gen # None
                 /\ \/ disk' = [disk EXCEPT ![f] = Foreign]
                    \/ disk' = [disk EXCEPT ![f] = PieceOf(store[vs].data, files[gen].key, f)]
<1>1. FacadeInv'
  BY SaveFileThrowKeeps, SaveFileEmbedKeeps, SaveFileWriteKeeps, SaveFileEndKeeps,
     SaveFileShortWriteKeeps DEF SaveTaskStep
<1>2. SameMemory /\ UNCHANGED <<op, result, auxVars>>
  BY MemoryFrame, MemoryUnchanged
     DEF FacadeInv, SaveTaskStep, SaveFileThrow, SaveFileEmbed, SaveFileWrite, SaveFileEnd,
         SaveFileShortWrite
<1>3. CASE SaveFileThrow(b, f) \/ SaveFileEmbed(b, f) \/ SaveFileShortWrite(b, f)
  BY <1>1, <1>2, <1>3 DEF SaveFileThrow, SaveFileEmbed, SaveFileShortWrite
<1>4. CASE SaveFileWrite(b, f)
  BY <1>1, <1>2, <1>4, WritersSave DEF SaveFileWrite
<1>5. CASE SaveFileEnd(b, f)
  <2>1. batch[b].task[f].st = "writing"
    BY <1>5 DEF SaveFileEnd
  <2>. QED
    BY <1>1, <1>2, <1>5, <2>1, WritersSave, SaveFileEndKeeps
<1>. QED
  BY <1>3, <1>4, <1>5 DEF SaveTaskStep

-----------------------------------------------------------------------------
(* What a Load has extracted.                                              *)

LoadTaskInv(t, f) ==
    /\ t.st \in {"queued", "busy"} => f \notin files[gen].loaded
    /\ t.st = "ok" => /\ store[vs].data[f] = Decode(disk[f], files[gen].key).data
                      /\ store[vs].sum[f] = Decode(disk[f], files[gen].key).sum

\* A LoadFile that is done has left what its picture carries in the storage.
LoadInv ==
    \A b \in Batches, f \in File : batch[b].kind = "load" => LoadTaskInv(batch[b].task[f], f)

\* A step that leaves the carriers, the storage and the pictures of a Load.
LEMMA LoadTaskFrame ==
    ASSUME NEW f \in File, NEW t, LoadTaskInv(t, f), SameMemory, disk' = disk,
           gen # None, vs # None
    PROVE  LoadTaskInv(t, f)'
BY DEF LoadTaskInv, SameMemory

\* The tasks of a new Load have carriers that were never loaded.
LEMMA LoadStarts ==
    ASSUME ReopenBeforeLoad, ~RetryAfterFailure, FacadeInv, Load
    PROVE  LoadInv'
<1>1. MayCall /\ Ready /\ files[gen].vs = None
  BY DEF Load
<1>2. gen # None
  BY <1>1 DEF Ready, FacadeInv, ObjectInv
<1>3. files[gen].loaded = {}
  BY <1>1, <1>2 DEF FacadeInv, ObjectInv
<1>4. /\ gen' = gen /\ files'[gen].loaded = {}
      /\ batch'[op'.batch] = NewBatch("load")
      /\ \A c \in Batches \ {op'.batch} : batch'[c] = NoBatch
  BY <1>3, LoadKeeps
<1>5. ASSUME NEW c \in Batches, NEW f \in File, batch'[c].kind = "load"
      PROVE  LoadTaskInv(batch[c].task[f], f)'
  <2>1. c = op'.batch
    BY <1>4, <1>5 DEF NoBatch
  <2>2. batch'[c].task[f].st = "queued"
    BY <1>4, <2>1, NewTaskQueued
  <2>. QED
    BY <1>4, <2>2 DEF LoadTaskInv
<1>. QED
  BY <1>5 DEF LoadInv

\* The step of a LoadFile task, in its batch.
LEMMA LoadTaskGoesOn ==
    ASSUME FacadeInv, LoadInv, NEW b \in Batches, NEW f \in File, batch[b].kind = "load",
           NEW t \in LoadTask, TaskBecomes(b, f, t), UNCHANGED <<op, result, gen>>,
           LoadTaskInv(t, f)',
           \A g \in File \ {f}, u \in LoadTask : u = batch[b].task[g] => LoadTaskInv(u, g)'
    PROVE  LoadInv'
<1>1. TypeInv /\ BatchInv /\ Live(b)
  BY DEF FacadeInv, Live
<1>2. \A c \in Batches \ {b} : batch[c].kind = "none"
  BY <1>1 DEF BatchInv, Live
<1>3. /\ \A c \in Batches \ {b} : batch'[c] = batch[c]
      /\ \/ /\ batch'[b].task[f] = t
            /\ \A g \in File \ {f} : batch'[b].task[g] = batch[b].task[g]
         \/ \A c \in Batches : ~Live(c)'
  BY <1>1, TaskFrame
<1>4. ASSUME NEW c \in Batches, NEW g \in File, batch'[c].kind = "load"
      PROVE  LoadTaskInv(batch[c].task[g], g)'
  <2>1. c = b
    BY <1>2, <1>3, <1>4
  <2>2. ~(\A d \in Batches : ~Live(d)')
    BY <1>4 DEF Live
  <2>3. batch'[b].task[g] = IF g = f THEN t ELSE batch[b].task[g]
    BY <1>3, <2>2
  <2>4. PICK u \in LoadTask : u = batch'[b].task[g] /\ LoadTaskInv(u, g)'
    BY <2>3, LoadBatchUses
  <2>. QED
    BY <2>1, <2>4 DEF LoadTaskInv
<1>. QED
  BY <1>4 DEF LoadInv

\* A task that skips its file, begins or throws has extracted nothing.
LEMMA LoadFileQuietLoads ==
    ASSUME FacadeInv, LoadInv, NEW b \in Batches, NEW f \in File,
           LoadFileSkip(b, f) \/ LoadFileBegin(b, f) \/ LoadFileThrow(b, f)
    PROVE  LoadInv'
<1>1. /\ batch[b].kind = "load" /\ SameMemory /\ disk' = disk /\ UNCHANGED <<op, result>>
  BY LoadFileQuietKeeps
<1>2. gen # None /\ vs # None
  BY <1>1, LoadBatchUses
<1>3. \A g \in File : LoadTaskInv(batch[b].task[g], g)
  BY <1>1 DEF LoadInv
<1>4. f \notin files[gen].loaded
  <2>1. batch[b].task[f].st \in {"queued", "busy"}
    BY DEF LoadFileSkip, LoadFileBegin, LoadFileThrow
  <2>. QED
    BY <1>3, <2>1 DEF LoadTaskInv
<1>5. PICK t \in LoadTask : TaskBecomes(b, f, t) /\ (t.st = "ok" => f \in files[gen].loaded)
  BY LoadFileQuietKeeps
<1>6. LoadTaskInv(t, f)
  BY <1>4, <1>5 DEF LoadTaskInv
<1>7. LoadTaskInv(t, f)'
  BY <1>1, <1>2, <1>6, LoadTaskFrame
<1>8. ASSUME NEW g \in File \ {f}, NEW u \in LoadTask, u = batch[b].task[g]
      PROVE  LoadTaskInv(u, g)'
  <2>1. LoadTaskInv(u, g)
    BY <1>3, <1>8
  <2>. QED
    BY <1>1, <1>2, <2>1, LoadTaskFrame
<1>. QED
  BY <1>1, <1>5, <1>7, <1>8, LoadTaskGoesOn DEF SameMemory

\* What is extracted from a picture is its share of the storage.
LEMMA LoadFileEndLoads ==
    ASSUME FacadeInv, LoadInv, NEW b \in Batches, NEW f \in File, LoadFileEnd(b, f)
    PROVE  LoadInv'
<1> DEFINE share == Decode(disk[f], files[gen].key)
           t == [IdleTask EXCEPT !.st = "ok"]
<1>1. /\ batch[b].kind = "load" /\ UNCHANGED <<gen, vs, op, result, disk>>
      /\ TaskBecomes(b, f, t)
      /\ files'[gen] = [files[gen] EXCEPT !.loaded = @ \cup {f}]
      /\ store'[vs] = [store[vs] EXCEPT !.data[f] = share.data, !.sum[f] = share.sum]
  BY LoadFileEndKeeps
<1>2. gen \in Gens /\ vs \in Stores
  BY <1>1, LoadBatchUses
<1>3. /\ files'[gen].loaded = files[gen].loaded \cup {f}
      /\ files'[gen].key = files[gen].key
  BY <1>1, <1>2 DEF FacadeInv, TypeInv
<1>4. /\ store'[vs].data = [store[vs].data EXCEPT ![f] = share.data]
      /\ store'[vs].sum = [store[vs].sum EXCEPT ![f] = share.sum]
  <2>1. store[vs] \in [data : Content, sum : [File -> SumShare]]
    BY <1>2 DEF FacadeInv, TypeInv
  <2>. QED
    BY <1>1, <2>1
<1>5. store[vs].data \in [File -> Share] /\ store[vs].sum \in [File -> SumShare]
  BY <1>2 DEF FacadeInv, TypeInv, Content
<1>6. t \in LoadTask /\ t.st = "ok"
  BY DEF LoadTask, IdleTask
<1> HIDE DEF share, t
<1>7. LoadTaskInv(t, f)'
  <2>1. store'[vs].data[f] = share.data /\ store'[vs].sum[f] = share.sum
    BY <1>4, <1>5
  <2>2. share' = share
    BY <1>1, <1>3 DEF share
  <2>. QED
    BY <1>1, <1>6, <2>1, <2>2 DEF LoadTaskInv, share
<1>8. ASSUME NEW g \in File \ {f}, NEW u \in LoadTask, u = batch[b].task[g]
      PROVE  LoadTaskInv(u, g)'
  <2>1. LoadTaskInv(u, g)
    BY <1>1, <1>8 DEF LoadInv
  <2>2. store'[vs].data[g] = store[vs].data[g] /\ store'[vs].sum[g] = store[vs].sum[g]
    BY <1>4, <1>5
  <2>. QED
    BY <1>1, <1>3, <2>1, <2>2 DEF LoadTaskInv
<1>. QED
  BY <1>1, <1>6, <1>7, <1>8, LoadTaskGoesOn

\* The steps after which no Load is at work.
LEMMA NoLoadAfter ==
    ASSUME \A c \in Batches : batch'[c].kind # "load" PROVE LoadInv'
BY DEF LoadInv

\* Every step keeps what the tasks of a Load have extracted.
LEMMA LoadNext ==
    ASSUME ReopenBeforeLoad, ~RetryAfterFailure, FacadeInv, LoadInv, [Next]_vars
    PROVE  LoadInv'
<1>1. CASE UNCHANGED vars
  BY <1>1 DEF vars, memoryVars, LoadInv, LoadTaskInv
<1>2. CASE Client
  <2>1. MayCall \/ Load
    BY <1>2 DEF Client, Configure, Open, OpenThrow, LoadRefused, SaveRefused, Save, Write
  <2>2. CASE Load
    BY <2>2, LoadStarts
  <2>3. CASE MayCall /\ ~Load /\ ~Save
    <3>1. batch' = batch
      BY <1>2, <2>3 DEF Client, Configure, Open, OpenThrow, LoadRefused, SaveRefused, Write
    <3>2. \A c \in Batches : batch[c].kind # "load"
      BY <2>3, CallsAreAlone DEF NoBatch
    <3>. QED
      BY <3>1, <3>2, NoLoadAfter
  <2>4. CASE Save
    <3>1. MayCall /\ op' = [name |-> "save", batch |-> Some(FreeBatches)]
      BY <2>4 DEF Save
    <3>2. FacadeInv' /\ Saving' /\ op' # Idle
      BY <2>4, SaveKeeps
    <3>3. \E c \in Batches : batch'[c].kind = "save"
      BY <3>2 DEF Saving
    <3>4. \A c, d \in Batches : batch'[c].kind # "none" /\ batch'[d].kind # "none" => c = d
      BY <3>2 DEF FacadeInv, BatchInv, Live
    <3>. QED
      BY <3>3, <3>4, NoLoadAfter
  <2>. QED
    BY <2>1, <2>2, <2>3, <2>4, <1>2 DEF Client, Save
<1>3. ASSUME NEW b \in Batches, NEW f \in File, Task(b, f)
      PROVE  LoadInv'
  <2>1. CASE SaveTaskStep(b, f)
    BY <2>1, SaveTaskBatch, NoLoadAfter
  <2>2. CASE LoadFileEnd(b, f)
    BY <2>2, LoadFileEndLoads
  <2>3. CASE LoadFileSkip(b, f) \/ LoadFileBegin(b, f) \/ LoadFileThrow(b, f)
    BY <2>3, LoadFileQuietLoads
  <2>. QED
    BY <1>3, <2>1, <2>2, <2>3 DEF Task, SaveTaskStep
<1>4. CASE LoadReturn
  <2>1. /\ op # Idle /\ batch' = [batch EXCEPT ![op.batch] = NoBatch]
    BY <1>4 DEF LoadReturn, Idle
  <2>2. \A c \in Batches \ {op.batch} : batch[c] = NoBatch
    BY <2>1, CallBatch
  <2>3. batch \in BatchType
    BY DEF FacadeInv, TypeInv, BatchType
  <2>. QED
    BY <2>1, <2>2, <2>3, NoLoadAfter DEF BatchType, NoBatch
<1>5. CASE SaveReturn
  <2>1. FacadeInv' /\ op' = Idle /\ result' = "ok"
    BY <1>5, SaveReturnKeeps DEF SaveReturn
  <2>2. \A c \in Batches : batch'[c].kind = "none"
    BY <2>1 DEF FacadeInv, BatchInv, Live
  <2>. QED
    BY <2>2, NoLoadAfter
<1>6. CASE CallThrow
  <2>1. /\ SameMemory /\ disk' = disk
        /\ (\A c \in Batches : batch'[c] = NoBatch) \/ batch' = batch
    BY <1>6, CallThrowKeeps DEF CallThrow
  <2>2. CASE \A c \in Batches : batch'[c] = NoBatch
    BY <2>2, NoLoadAfter DEF NoBatch
  <2>3. CASE batch' = batch
    <3>1. ASSUME NEW c \in Batches, NEW f \in File, batch[c].kind = "load",
                 NEW u, u = batch[c].task[f]
          PROVE  LoadTaskInv(u, f)'
      <4>1. LoadTaskInv(u, f) /\ gen # None /\ vs # None
        BY <3>1, LoadBatchUses DEF LoadInv
      <4>. QED
        BY <2>1, <4>1, LoadTaskFrame
    <3>2. ASSUME NEW c \in Batches, NEW f \in File, batch'[c].kind = "load"
          PROVE  LoadTaskInv(batch[c].task[f], f)'
      <4>1. PICK u : u = batch[c].task[f]
        OBVIOUS
      <4>2. LoadTaskInv(u, f)' /\ u = batch'[c].task[f]
        BY <2>3, <3>1, <3>2, <4>1
      <4>. QED
        BY <4>2 DEF LoadTaskInv
    <3>. QED
      BY <3>2 DEF LoadInv
  <2>. QED
    BY <2>1, <2>2, <2>3
<1>7. CASE Restart
  BY <1>7, NoLoadAfter DEF Restart, NoBatch
<1>. QED
  BY <1>1, <1>2, <1>3, <1>4, <1>5, <1>6, <1>7 DEF Next, Return

\* What a Load has extracted by the time it returns.
LEMMA Extracted ==
    ASSUME FacadeInv, LoadInv, LoadReturn
    PROVE  /\ files[gen].key \in Key /\ ~Saving
           /\ store[vs].data \in [File -> Share] /\ store[vs].sum \in [File -> SumShare]
           /\ \A f \in File :
                 IF disk[f].key = files[gen].key
                 THEN store[vs].data[f] = disk[f].data /\ store[vs].sum[f] = disk[f].sum
                 ELSE store[vs].data[f] = Garbled /\ store[vs].sum[f] = Garbled
<1>1. op.name = "load" /\ AllOk(op.batch) /\ op # Idle
  BY DEF LoadReturn, Idle
<1>2. op.batch \in Batches /\ batch[op.batch].kind = "load" /\ ~Saving
  BY <1>1, CallBatch
<1>3. files[gen].key \in Key /\ vs \in Stores
  BY <1>2, LoadBatchUses
<1>4. store[vs].data \in [File -> Share] /\ store[vs].sum \in [File -> SumShare]
  BY <1>3 DEF FacadeInv, TypeInv, Content
<1>5. ASSUME NEW f \in File
      PROVE  /\ store[vs].data[f] = Decode(disk[f], files[gen].key).data
             /\ store[vs].sum[f] = Decode(disk[f], files[gen].key).sum
  BY <1>1, <1>2 DEF AllOk, LoadInv, LoadTaskInv
<1>. QED
  BY <1>2, <1>3, <1>4, <1>5 DEF Decode

\* Nobody takes what was not extracted for content.
LEMMA GarbledIsNoContent == Garbled \notin Values \cup {Junk} /\ Garbled \notin Content
                            /\ Uninit \notin Values \cup {Junk}
BY StorageAssumption, MarkerAssumption

\* The checksum of the storage is valid exactly if the pictures are sealed.
LEMMA ValidMeansSealed ==
    ASSUME FacadeInv, LoadInv, LoadReturn
    PROVE  Valid(store[vs]) <=> Sealed /\ disk[1].key = files[gen].key
<1> DEFINE key == files[gen].key
           data == store[vs].data
           sum == store[vs].sum
<1>1. /\ key \in Key /\ data \in [File -> Share] /\ sum \in [File -> SumShare]
      /\ \A f \in File :
            IF disk[f].key = key THEN data[f] = disk[f].data /\ sum[f] = disk[f].sum
                                 ELSE data[f] = Garbled /\ sum[f] = Garbled
  BY Extracted
<1>2. key # None /\ 1 \in File /\ holders \subseteq File /\ holders # {}
  BY <1>1, StorageAssumption, MarkerAssumption DEF File, FacadeInv, TypeInv
<1>3. /\ OnDisk \in [File -> Share] /\ \A f \in File : OnDisk[f] = disk[f].data
  BY DEF OnDisk, FacadeInv, TypeInv, Piece
<1>4. Valid(store[vs]) <=> \A f \in holders : sum[f] = data
  BY DEF Valid
<1> HIDE DEF key, data, sum
<1>5. ASSUME \A f \in File : disk[f].key = key
      PROVE  data = OnDisk /\ \A f \in holders : sum[f] = disk[f].sum
  BY <1>1, <1>2, <1>3, <1>5
<1>6. ASSUME Sealed, disk[1].key = key
      PROVE  \A f \in holders : sum[f] = data
  <2>1. \A f \in File : disk[f].key = key
    BY <1>6 DEF Sealed
  <2>. QED
    BY <1>5, <1>6, <2>1 DEF Sealed
<1>7. ASSUME \A f \in holders : sum[f] = data
      PROVE  Sealed /\ disk[1].key = key
  <2>1. PICK h \in holders : sum[h] = data
    BY <1>2, <1>7
  <2>2. data # Garbled
    BY <1>1, GarbledIsNoContent DEF Content
  <2>3. disk[h].key = key /\ disk[h].sum = data
    BY <1>1, <1>2, <2>1, <2>2
  <2>4. data \in Settling
    BY <1>2, <2>3 DEF FacadeInv, PictureInv
  <2>5. \A f \in File : data[f] # Garbled
    BY <2>4, GarbledIsNoContent DEF Settling
  <2>6. \A f \in File : disk[f].key = key
    BY <1>1, <2>5
  <2>7. data = OnDisk /\ \A f \in holders : disk[f].sum = data
    BY <1>5, <1>7, <2>6
  <2>. QED
    BY <1>2, <2>6, <2>7 DEF Sealed
<1>. QED
  BY <1>4, <1>6, <1>7 DEF key

\* A Load that finds the pieces of one content, under its key, brings it back.
LEMMA ContentComesBack ==
    ASSUME FacadeInv, LoadInv, LoadReturn, NEW content \in Settling,
           \A f \in File : disk[f].key = files[gen].key /\ disk[f].data = content[f]
    PROVE  store'[vs].data = content
<1>1. store[vs].data \in [File -> Share] /\ \A f \in File : store[vs].data[f] = content[f]
  BY Extracted
<1>2. \A f \in File : content[f] \notin {Uninit, Garbled}
  BY GarbledIsNoContent DEF Settling
<1>3. store[vs].data = content
  BY <1>1 DEF Settling
<1>4. Settled(store[vs]).data = [f \in File |-> IF store[vs].data[f] \in {Uninit, Garbled}
                                                THEN Junk ELSE store[vs].data[f]]
  BY DEF Settled
<1>5. Settled(store[vs]).data = content
  BY <1>2, <1>3, <1>4 DEF Settling
<1>. QED
  BY <1>5, LoadReturnKeeps

\* LoadInv is an invariant, next to that of the facade.
THEOREM LoadInvariant ==
    ASSUME ReopenBeforeLoad, ~RetryAfterFailure PROVE Spec => []LoadInv
<1>1. Init => LoadInv
  BY DEF Init, EmptyMemory, NoBatch, LoadInv
<1>2. FacadeInv /\ LoadInv /\ [Next]_vars => LoadInv'
  BY LoadNext
<1>. QED
  BY <1>1, <1>2, FacadeInvariant, PTL DEF Spec

\* LoadVirtualStorage finds its checksum valid exactly if the pictures carry one
\* content that was saved as a whole with this key.
THEOREM ChecksumFindsVolumes ==
    ASSUME ReopenBeforeLoad, ~RetryAfterFailure PROVE Spec => ChecksumIsExact
<1>1. FacadeInv /\ LoadInv /\ [Next]_vars
         => [LoadReturn => (Valid(store[vs]) <=> Sealed /\ disk[1].key = files[gen].key)]_vars
  BY ValidMeansSealed
<1>. QED
  BY <1>1, FacadeInvariant, LoadInvariant, PTL DEF Spec, ChecksumIsExact

\* A Load brings back what the last Save stored, if the key is the same.
THEOREM LoadBringsBack ==
    ASSUME ReopenBeforeLoad, ~RetryAfterFailure PROVE Spec => RoundTrip
<1>1. ASSUME FacadeInv, LoadInv, LoadReturn, saved # None, saved.key = files[gen].key
      PROVE  store'[vs].data = saved.content
  <2>1. ~Saving /\ saved.content \in Settling
    BY <1>1, Extracted DEF FacadeInv, TypeInv
  <2>2. ASSUME NEW f \in File
        PROVE  disk[f].key = files[gen].key /\ disk[f].data = saved.content[f]
    <3>1. disk[f] = PieceOf(saved.content, saved.key, f)
      BY <1>1, <2>1 DEF FacadeInv, PictureInv
    <3>2. /\ PieceOf(saved.content, saved.key, f).key = saved.key
          /\ PieceOf(saved.content, saved.key, f).data = saved.content[f]
      BY DEF PieceOf
    <3>. QED
      BY <1>1, <3>1, <3>2
  <2>. QED
    BY <1>1, <2>1, <2>2, ContentComesBack
<1>2. FacadeInv /\ LoadInv /\ [Next]_vars
         => [LoadReturn /\ saved # None /\ saved.key = files[gen].key
                => store'[vs].data = saved.content]_vars
  BY <1>1
<1>. QED
  BY <1>2, FacadeInvariant, LoadInvariant, PTL DEF Spec, RoundTrip

-----------------------------------------------------------------------------
(* The volume a Save stores, and the one it found.                         *)

\* The checksum in the pictures is that of the volume the Save found, or a
\* picture with a part of it is torn, or stored already.
AtWork ==
    \/ Claimed = before
    \/ \E h \in holders : disk[h] \in {Foreign, PieceOf(attempt.content, attempt.key, h)}

Attempted == attempt = [content |-> attempt.content, key |-> attempt.key]

Holders == holders \subseteq File /\ holders # {}

Known == Claimed \in {before, attempt, None} /\ Volume \in {before, attempt, None}

ClaimInv ==
    /\ Saving => /\ attempt = [content |-> store[vs].data, key |-> loadKey]
                 /\ AtWork
    /\ Volume = None => Claimed \in {before, attempt, None}

\* Every holder of a part of the checksum speaks for it.
LEMMA ClaimOfHolder ==
    ASSUME NEW h \in holders
    PROVE  \/ Claimed = None
           \/ disk[h].key # None /\ Claimed = [content |-> disk[h].sum, key |-> disk[h].key]
BY DEF Claimed

\* A volume is what its checksum says.
LEMMA SealedIsClaimed ==
    ASSUME Holders, Sealed
    PROVE  Claimed = Volume
<1>1. Some(holders) \in holders /\ holders \subseteq File
  BY SomeOf DEF Holders
<1> DEFINE h == Some(holders)
<1>2. disk[h].key # None /\ disk[h].key = disk[1].key /\ disk[h].sum = OnDisk
  BY <1>1 DEF Sealed
<1>3. \A f \in holders : disk[f].key = disk[h].key /\ disk[f].sum = disk[h].sum
  BY <1>1, <1>2 DEF Sealed
<1>4. Claimed = [content |-> disk[h].sum, key |-> disk[h].key]
  BY <1>2, <1>3 DEF Claimed
<1>5. Volume = [content |-> OnDisk, key |-> disk[1].key]
  BY DEF Volume
<1>. QED
  BY <1>2, <1>4, <1>5

\* While a Save is at work, the pictures carry the volume it found, the one it
\* stores, or none.
LEMMA KnownVolume == Holders /\ Attempted /\ AtWork => Known
<1> SUFFICES ASSUME Holders, Attempted, AtWork
             PROVE  Known
  OBVIOUS
<1>1. Claimed \in {before, attempt, None}
  <2>1. CASE Claimed = before
    BY <2>1
  <2>2. ASSUME NEW h \in holders, disk[h] = Foreign
        PROVE  Claimed = None
    BY <2>2, ClaimOfHolder, ForeignIsPiece
  <2>3. ASSUME NEW h \in holders, disk[h] = PieceOf(attempt.content, attempt.key, h)
        PROVE  Claimed \in {attempt, None}
    <3>1. disk[h].sum = attempt.content /\ disk[h].key = attempt.key
      BY <2>3 DEF PieceOf
    <3>. QED
      BY <3>1, ClaimOfHolder DEF Attempted
  <2>. QED
    BY <2>1, <2>2, <2>3 DEF AtWork
<1>2. Sealed => Volume = Claimed
  BY SealedIsClaimed
<1>. QED
  BY <1>1, <1>2 DEF Volume, Known

\* What the checksum says depends on its holders only.
LEMMA ClaimFrame ==
    ASSUME Holders, holders' = holders, \A h \in holders : disk'[h] = disk[h]
    PROVE  Claimed' = Claimed
<1>1. Some(holders) \in holders /\ Some(holders)' = Some(holders)
  BY SomeOf DEF Holders, Some
<1>. QED
  BY <1>1 DEF Claimed

\* A volume is not taken for its absence.
LEMMA SealedIsNotNone ==
    ASSUME FacadeInv
    PROVE  Sealed <=> Volume # None
<1>1. Sealed => Volume \in [content : Content, key : Key \cup {None}]
  <2>1. OnDisk \in Content
    BY DEF FacadeInv, TypeInv, OnDisk, Piece, Content
  <2>2. disk[1].key \in Key \cup {None}
    BY StorageAssumption DEF File, FacadeInv, TypeInv, Piece
  <2>. QED
    BY <2>1, <2>2 DEF Volume
<1>. QED
  BY <1>1, MarkerAssumption DEF Volume

\* A task of SaveFile tears its picture or stores the piece of the attempt.
LEMMA SaveTaskClaims ==
    ASSUME FacadeInv, ClaimInv, NEW b \in Batches, NEW f \in File, SaveTaskStep(b, f)
    PROVE  ClaimInv' /\ Volume' \in {before, attempt, None}
<1>1. /\ Saving /\ FacadeInv' /\ SameMemory /\ UNCHANGED auxVars
      /\ \/ disk' = disk
         \/ /\ f \in files[gen].loaded /\ gen # None
            /\ \/ disk' = [disk EXCEPT ![f] = Foreign]
               \/ disk' = [disk EXCEPT ![f] = PieceOf(store[vs].data, files[gen].key, f)]
  BY SaveTaskBatch, SaveTaskFrame
<1>2. /\ vs # None /\ AtWork /\ disk \in [File -> Piece] /\ Holders
      /\ attempt = [content |-> store[vs].data, key |-> loadKey]
      /\ holders' = holders /\ before' = before /\ attempt' = attempt /\ loadKey' = loadKey
  BY <1>1 DEF ClaimInv, FacadeInv, ObjectInv, TypeInv, Holders, auxVars, savingVars
<1>3. attempt.content = store[vs].data /\ attempt.key = loadKey /\ Attempted
  BY <1>2 DEF Attempted
<1>4. \A h \in holders \ {f} : disk'[h] = disk[h]
  BY <1>1, <1>2 DEF Holders
<1>5. AtWork'
  <2>1. CASE \A h \in holders : disk'[h] = disk[h]
    <3>1. Claimed' = Claimed
      BY <1>2, <2>1, ClaimFrame
    <3>. QED
      BY <1>2, <2>1, <3>1 DEF AtWork
  <2>2. CASE f \in holders /\ disk' # disk
    <3>1. files[gen].key = loadKey
      BY <1>1, <2>2 DEF FacadeInv, ObjectInv, Calm
    <3>2. disk'[f] \in {Foreign, PieceOf(attempt'.content, attempt'.key, f)}
      BY <1>1, <1>2, <1>3, <2>2, <3>1
    <3>. QED
      BY <1>2, <2>2, <3>2 DEF AtWork
  <2>. QED
    BY <1>4, <2>1, <2>2
<1>6. Holders' /\ Attempted'
  BY <1>2, <1>3 DEF Holders, Attempted
<1>7. Known'
  BY <1>5, <1>6, KnownVolume, PTL
<1>8. attempt' = [content |-> store'[vs'].data, key |-> loadKey']
  BY <1>1, <1>2 DEF SameMemory
<1>. QED
  BY <1>2, <1>5, <1>7, <1>8 DEF ClaimInv, Known

\* The steps that leave the pictures alone and after which no Save is at work.
LEMMA QuietClaims ==
    ASSUME ClaimInv, UNCHANGED <<disk, holders, savingVars>>,
           Saving' => Saving /\ store'[vs'].data = store[vs].data /\ loadKey' = loadKey
    PROVE  ClaimInv'
<1>1. Claimed' = Claimed /\ Volume' = Volume
  BY DEF Claimed, Volume, Sealed, OnDisk
<1>2. before' = before /\ attempt' = attempt
  BY DEF savingVars
<1>3. AtWork => AtWork'
  BY <1>1, <1>2 DEF AtWork
<1>. QED
  BY <1>1, <1>2, <1>3 DEF ClaimInv

\* The calls of the client other than Save.
LEMMA CallFrame ==
    ASSUME ~RetryAfterFailure, FacadeInv, Client, ~Save
    PROVE  ~Saving /\ ~Saving' /\ UNCHANGED <<disk, holders, savingVars>>
<1>1. MayCall
  BY DEF Client, Configure, Open, OpenThrow, LoadRefused, Load, SaveRefused, Write
<1>2. ~Saving /\ \A c \in Batches : batch[c] = NoBatch
  BY <1>1, CallsAreAlone
<1>3. UNCHANGED <<disk, holders, savingVars>>
  BY DEF Client, Configure, Open, OpenThrow, LoadRefused, Load, SaveRefused, Write, auxVars
<1>4. CASE Load
  BY <1>2, <1>3, <1>4, LoadKeeps
<1>5. CASE ~Load
  <2>1. batch' = batch
    BY <1>5 DEF Client, Configure, Open, OpenThrow, LoadRefused, SaveRefused, Write
  <2>. QED
    BY <1>2, <1>3, <2>1 DEF Saving
<1>. QED
  BY <1>4, <1>5

\* Save notes the volume it found.
LEMMA SaveClaims ==
    ASSUME ~RetryAfterFailure, FacadeInv, Save
    PROVE  ClaimInv'
<1>1. /\ before' = Claimed /\ attempt' = [content |-> store[mvs].data, key |-> loadKey]
      /\ UNCHANGED <<disk, holders, loadKey>>
  BY DEF Save
<1>2. vs' = vs /\ vs = mvs /\ store'[vs].data = store[vs].data
  BY SaveKeeps
<1>3. Claimed' = Claimed
  BY <1>1 DEF Claimed
<1>4. attempt' = [content |-> store'[vs'].data, key |-> loadKey']
  BY <1>1, <1>2
<1>. QED
  BY <1>1, <1>3, <1>4 DEF ClaimInv, AtWork

\* A LoadFile task leaves the pictures alone, and no Save is at work.
LEMMA LoadTaskClaims ==
    ASSUME FacadeInv, NEW b \in Batches, NEW f \in File, Task(b, f), ~SaveTaskStep(b, f)
    PROVE  /\ batch[b].kind = "load" /\ ~Saving /\ ~Saving'
           /\ UNCHANGED <<vs, mvs, op, result, disk, auxVars>>
<1>1. LoadFileSkip(b, f) \/ LoadFileBegin(b, f) \/ LoadFileEnd(b, f) \/ LoadFileThrow(b, f)
  BY DEF Task, SaveTaskStep
<1>2. /\ batch[b].kind = "load"
      /\ UNCHANGED <<vs, mvs, op, result, disk, auxVars>>
  BY <1>1, LoadFileQuietKeeps, LoadFileEndKeeps DEF SameMemory
<1>3. TypeInv /\ BatchInv
  BY DEF FacadeInv
<1>4. \A c \in Batches : batch[c].kind # "save"
  BY <1>2, <1>3 DEF BatchInv, Live
<1>5. \E t : TaskBecomes(b, f, t) \/ Begin(b, f, t)
  BY <1>1, <1>2, FinishFrame
     DEF LoadFileSkip, LoadFileBegin, LoadFileEnd, LoadFileThrow
<1>6. PICK t : TaskBecomes(b, f, t) \/ Begin(b, f, t)
  BY <1>5
<1>7. \A c \in Batches : batch'[c].kind # "save"
  BY <1>3, <1>4, <1>6, TaskKinds DEF NoBatch
<1>. QED
  BY <1>2, <1>4, <1>7 DEF Saving

\* Every step keeps the claims.
LEMMA ClaimNext ==
    ASSUME ~RetryAfterFailure, FacadeInv, ClaimInv, [Next]_vars
    PROVE  ClaimInv'
<1>1. CASE UNCHANGED vars
  BY <1>1, QuietClaims DEF vars, memoryVars, auxVars, Saving
<1>2. CASE Client
  BY <1>2, CallFrame, SaveClaims, QuietClaims
<1>3. ASSUME NEW b \in Batches, NEW f \in File, Task(b, f)
      PROVE  ClaimInv'
  <2>1. CASE SaveTaskStep(b, f)
    BY <2>1, SaveTaskClaims
  <2>2. CASE ~SaveTaskStep(b, f)
    BY <1>3, <2>2, LoadTaskClaims, QuietClaims DEF auxVars
  <2>. QED
    BY <2>1, <2>2
<1>4. CASE LoadReturn
  <2>1. UNCHANGED <<disk, holders, savingVars>>
    BY <1>4 DEF LoadReturn
  <2>. QED
    BY <1>4, <2>1, LoadReturnKeeps, QuietClaims
<1>5. CASE SaveReturn
  <2>1. ~Saving' /\ UNCHANGED <<disk, holders>>
    BY <1>5, SaveReturnKeeps DEF SaveReturn
  <2>2. Volume' # None
    <3>1. /\ store[vs].data \in Settling /\ files[gen].key \in Key
          /\ \A f \in File : disk[f] = PieceOf(store[vs].data, files[gen].key, f)
      <4>1. /\ saved' = [content |-> store[vs].data, key |-> files[gen].key]
            /\ saved'.key \in Key /\ Saving /\ vs # None
            /\ \A f \in File : disk[f] = PieceOf(store[vs].data, files[gen].key, f)
        BY <1>5, SaveReturnKeeps
      <4>. QED
        BY <4>1 DEF FacadeInv, ObjectInv, Calm
    <3>2. holders \subseteq File
      BY DEF FacadeInv, TypeInv
    <3>3. Volume # None
      BY <3>1, <3>2, WholeVolume, SealedIsNotNone
    <3>. QED
      BY <2>1, <3>3 DEF Volume, Sealed, OnDisk
  <2>. QED
    BY <2>1, <2>2 DEF ClaimInv
<1>6. CASE CallThrow
  <2>1. /\ SameMemory /\ UNCHANGED <<disk, holders, savingVars, loadKey>>
        /\ (\A c \in Batches : batch'[c] = NoBatch) \/ batch' = batch
    BY <1>6, CallThrowKeeps DEF CallThrow
  <2>2. Saving' => Saving /\ vs # None
    BY <2>1 DEF Saving, NoBatch, FacadeInv, ObjectInv
  <2>. QED
    BY <2>1, <2>2, QuietClaims DEF SameMemory
<1>7. CASE Restart
  <2>1. UNCHANGED <<disk, holders, savingVars>>
    BY <1>7 DEF Restart
  <2>. QED
    BY <1>7, <2>1, RestartKeeps, QuietClaims
<1>. QED
  BY <1>1, <1>2, <1>3, <1>4, <1>5, <1>6, <1>7 DEF Next, Return

-----------------------------------------------------------------------------
(* The steps of the durable store.                                         *)

\* The content the client reads and writes.
Mem == IF vs # None /\ vs = mvs /\ op.name # "load" THEN store[vs].data ELSE None

\* The state of DurableStore but for the memory.
Rest == <<loadKey, Volume, before, attempt, result>>

\* The volume is a matter of pictures and checksum only.
LEMMA VolumeFrame == ASSUME UNCHANGED <<disk, holders>> PROVE Volume' = Volume
BY DEF Volume, Sealed, OnDisk

\* Steps that show nothing are none of DurableStore.
LEMMA StoreStutters ==
    ASSUME Mem' = Mem, UNCHANGED Rest, Saving' <=> Saving
    PROVE  UNCHANGED Durable!vars
BY DEF Durable!vars, Mem, Rest, Saving

\* A call that drops what was loaded is Forget.
LEMMA StoreForgets ==
    ASSUME Mem' = None, ~Saving', result' = "ok", loadKey' = None,
           UNCHANGED <<Volume, before, attempt>>
    PROVE  Durable!Next
<1>1. Durable!Forget
  BY DEF Durable!Forget, Mem, Saving
<1>. QED
  BY <1>1 DEF Durable!Next

\* A call that throws is Throw.
LEMMA StoreThrows ==
    ASSUME Mem' = Mem, result' = "threw", Saving' => Saving,
           UNCHANGED <<loadKey, Volume, before, attempt>>
    PROVE  Durable!Next
<1>1. Durable!Throw
  BY DEF Durable!Throw, Mem, Saving
<1>. QED
  BY <1>1 DEF Durable!Next

\* A Load that returns is Load: a whole volume comes out as it is.
LEMMA StoreLoads ==
    ASSUME Mem = None, ~Saving, ~Saving', NEW k \in Key, loadKey' = k,
           \A c \in Settling : Volume = [content |-> c, key |-> k] => Mem' = Volume.content,
           Mem' \in Settling, UNCHANGED <<Volume, before, attempt, result>>
    PROVE  Durable!Next
<1>1. Durable!Load(k)
  BY DEF Durable!Load, Durable!Volume, Mem, Saving, Settling
<1>. QED
  BY <1>1 DEF Durable!Next

\* Write is Write.
LEMMA StoreWrites ==
    ASSUME Mem # None, ~Saving, ~Saving', NEW f \in File, Mem' \in Settling,
           \A g \in File \ {f} : Mem'[g] = Mem[g], UNCHANGED Rest
    PROVE  Durable!Next
<1>1. Durable!Write(f)
  BY DEF Durable!Write, Mem, Saving, Settling, Rest
<1>. QED
  BY <1>1 DEF Durable!Next

\* Save is the beginning of a Save.
LEMMA StoreSaves ==
    ASSUME Mem # None, Mem' = Mem, ~Saving, Saving',
           before' \in IF Volume = None THEN {before, attempt, None} ELSE {Volume},
           attempt' = [content |-> Mem, key |-> loadKey],
           UNCHANGED <<loadKey, Volume, result>>
    PROVE  Durable!Next
<1>1. Durable!Save
  BY DEF Durable!Save, Durable!Volume, Mem, Saving
<1>. QED
  BY <1>1 DEF Durable!Next

\* While a Save goes on or after it fails, the volume is the old, the new or none.
LEMMA StoreProgresses ==
    ASSUME Saving, Saving' \/ result = "threw", Mem' = Mem,
           Volume' \in {before, attempt, None},
           UNCHANGED <<loadKey, before, attempt, result>>
    PROVE  Durable!Next
<1>1. CASE Saving'
  <2>1. Durable!SaveProgress
    BY <1>1 DEF Durable!SaveProgress, Durable!Outcomes, Mem, Saving
  <2>. QED
    BY <2>1 DEF Durable!Next
<1>2. CASE ~Saving'
  <2>1. Durable!SaveAbandoned
    BY <1>2 DEF Durable!SaveAbandoned, Durable!Outcomes, Mem, Saving
  <2>. QED
    BY <2>1 DEF Durable!Next
<1>. QED
  BY <1>1, <1>2

\* A Save that returns is its end: the volume is what was in memory.
LEMMA StoreSaved ==
    ASSUME Saving, ~Saving', result = "ok", Volume = [content |-> Mem, key |-> loadKey],
           before' = None, attempt' = None, Mem' = Mem, UNCHANGED <<loadKey, Volume, result>>
    PROVE  Durable!Next
<1>1. Durable!SaveReturn
  BY DEF Durable!SaveReturn, Durable!Volume, Mem, Saving
<1>. QED
  BY <1>1 DEF Durable!Next

\* A storage is in use.
LEMMA MemInUse ==
    ASSUME FacadeInv, Calm, op.name # "load", vs # None
    PROVE  Mem = store[vs].data /\ Mem \in Settling /\ Mem # None /\ vs = mvs
<1>1. vs = mvs /\ store[vs].data \in Settling
  BY DEF FacadeInv, ObjectInv
<1>2. None \notin Settling
  BY MarkerAssumption DEF Settling, Content, Share
<1>. QED
  BY <1>1, <1>2 DEF Mem

\* The client's calls.
LEMMA ClientRefines ==
    ASSUME ~RetryAfterFailure, FacadeInv, ClaimInv, Client
    PROVE  Durable!Next \/ UNCHANGED Durable!vars
<1>1. MayCall
  BY DEF Client, Configure, Open, OpenThrow, LoadRefused, Load, SaveRefused, Save, Write
<1>2. op = Idle /\ op.name # "load" /\ result = "ok" /\ Calm /\ ~Saving /\ vs = mvs
  BY <1>1, CallsAreAlone DEF Idle
<1>3. Mem = IF vs # None THEN store[vs].data ELSE None
  BY <1>2 DEF Mem
<1>4. CASE Load
  <2>1. UNCHANGED <<disk, holders, before, attempt>> /\ loadKey' = None /\ result' = "ok"
    BY <1>4 DEF Load, savingVars
  <2>2. op'.name = "load" /\ ~Saving'
    BY <1>4, LoadKeeps
  <2>3. Mem' = None
    BY <2>2 DEF Mem
  <2>. QED
    BY <2>1, <2>2, <2>3, VolumeFrame, StoreForgets
<1>5. CASE Save
  <2>1. /\ before' = Claimed /\ attempt' = [content |-> store[vs].data, key |-> loadKey]
        /\ UNCHANGED <<disk, holders, loadKey, result>> /\ vs # None
    BY <1>2, <1>5 DEF Save
  <2>2. /\ Saving' /\ vs' = vs /\ op' = [name |-> "save", batch |-> Some(FreeBatches)]
        /\ store'[vs].data = store[vs].data
    BY <1>5, SaveKeeps
  <2>3. mvs' = mvs /\ op'.name # "load"
    BY <1>5, <2>2 DEF Save
  <2>4. Mem = store[vs].data /\ Mem # None
    BY <1>2, <2>1, MemInUse
  <2>5. Mem' = Mem
    BY <1>2, <2>1, <2>2, <2>3, <2>4 DEF Mem
  <2>6. Volume' = Volume
    BY <2>1, VolumeFrame
  <2>7. before' \in IF Volume = None THEN {before, attempt, None} ELSE {Volume}
    <3>1. CASE Volume = None
      BY <2>1, <3>1 DEF ClaimInv
    <3>2. CASE Volume # None
      <4>1. Sealed /\ Holders
        BY <3>2 DEF Volume, Holders, FacadeInv, TypeInv
      <4>. QED
        BY <2>1, <3>2, <4>1, SealedIsClaimed
    <3>. QED
      BY <3>1, <3>2
  <2>. QED
    BY <1>2, <2>1, <2>2, <2>4, <2>5, <2>6, <2>7, StoreSaves
<1>6. ASSUME NEW f \in File, NEW v \in Values, Write(f, v)
      PROVE  Durable!Next
  <2>1. UNCHANGED <<disk, auxVars, op, batch>> /\ result' = "ok" /\ vs # None
    BY <1>6 DEF Write
  <2>2. FacadeInv' /\ vs' = vs /\ mvs' = vs /\ store'[vs].data = [store[vs].data EXCEPT ![f] = v]
    BY <1>6, WriteKeeps
  <2>3. Mem = store[vs].data /\ Mem \in Settling /\ Mem # None
    BY <1>2, <2>1, MemInUse
  <2>4. Mem' = [Mem EXCEPT ![f] = v]
    BY <1>2, <2>1, <2>2, <2>3 DEF Mem
  <2>5. Mem' \in Settling /\ \A g \in File \ {f} : Mem'[g] = Mem[g]
    BY <2>3, <2>4 DEF Settling
  <2>6. ~Saving'
    BY <1>2, <2>1 DEF Saving
  <2>7. Volume' = Volume
    BY <2>1, VolumeFrame DEF auxVars
  <2>8. UNCHANGED Rest
    BY <1>2, <2>1, <2>7 DEF Rest, auxVars, savingVars
  <2>. QED
    BY <1>2, <2>3, <2>5, <2>6, <2>8, StoreWrites
<1>7. CASE \/ OpenThrow \/ LoadRefused \/ SaveRefused
           \/ \E c \in Configs : Configure(c)
           \/ \E p \in Passwords : Open(p)
  <2>1. /\ UNCHANGED <<vs, mvs, op, batch, disk, auxVars>>
        /\ result' \in {"ok", "threw"}
    BY <1>7 DEF OpenThrow, LoadRefused, SaveRefused, Configure, Open, memoryVars
  <2>2. vs # None => store'[vs] = store[vs]
    BY <1>7, OpenKeeps, OpenThrowKeeps DEF LoadRefused, SaveRefused, Configure, memoryVars
  <2>3. Mem' = Mem
    BY <1>3, <1>2, <2>1, <2>2 DEF Mem
  <2>4. UNCHANGED <<loadKey, Volume, before, attempt>> /\ (Saving' <=> Saving)
    BY <2>1, VolumeFrame DEF auxVars, savingVars, Saving
  <2>5. CASE result' = "threw"
    BY <2>3, <2>4, <2>5, StoreThrows
  <2>6. CASE result' = "ok"
    <3>1. UNCHANGED Rest
      BY <1>2, <2>4, <2>6 DEF Rest
    <3>. QED
      BY <2>3, <2>4, <3>1, StoreStutters
  <2>. QED
    BY <2>1, <2>5, <2>6
<1>. QED
  BY <1>4, <1>5, <1>6, <1>7 DEF Client

\* The tasks: those of a Load are not seen, those of a Save pass from one volume
\* to the other, or to none.
LEMMA TaskRefines ==
    ASSUME FacadeInv, ClaimInv, NEW b \in Batches, NEW f \in File, Task(b, f)
    PROVE  Durable!Next \/ UNCHANGED Durable!vars
<1>1. CASE SaveTaskStep(b, f)
  <2>1. /\ Saving
        /\ Saving' \/ result = "threw"
        /\ SameMemory /\ UNCHANGED <<op, result, auxVars>>
        /\ Volume' \in {before, attempt, None}
    BY <1>1, SaveTaskBatch, SaveTaskFrame, SaveTaskClaims
  <2>2. Mem' = Mem
    BY <2>1 DEF Mem, SameMemory
  <2>. QED
    BY <2>1, <2>2, StoreProgresses DEF auxVars, savingVars
<1>2. CASE ~SaveTaskStep(b, f)
  <2>1. /\ batch[b].kind = "load" /\ ~Saving /\ ~Saving'
        /\ UNCHANGED <<vs, mvs, op, result, disk, auxVars>>
    BY <1>2, LoadTaskClaims
  <2>2. vs # mvs
    BY <2>1, LoadBatchUses
  <2>3. Mem = None /\ Mem' = None
    BY <2>1, <2>2 DEF Mem
  <2>4. UNCHANGED Rest
    BY <2>1, VolumeFrame DEF Rest, auxVars, savingVars
  <2>. QED
    BY <2>1, <2>3, <2>4, StoreStutters
<1>. QED
  BY <1>1, <1>2

\* A Load returns with the content the pictures carry under its key, if any.
LEMMA LoadReturnRefines ==
    ASSUME FacadeInv, LoadInv, LoadReturn
    PROVE  Durable!Next
<1>1. /\ op.name = "load" /\ op # Idle /\ op' = Idle
      /\ UNCHANGED <<disk, holders, before, attempt, result>>
  BY DEF LoadReturn, Idle, savingVars
<1>2. /\ FacadeInv' /\ ~Saving /\ ~Saving' /\ vs' = vs /\ mvs' = vs /\ vs # None
      /\ loadKey' = files[gen].key /\ files[gen].key \in Key
  BY LoadReturnKeeps
<1>3. result = "ok" /\ op'.name = "idle"
  BY <1>1, CallBatch DEF Idle
<1>4. Mem = None
  BY <1>1 DEF Mem
<1>5. Mem' = store'[vs].data
  BY <1>2, <1>3 DEF Mem
<1>6. Mem' \in Settling
  <2>1. Calm'
    BY <1>1, <1>3 DEF Calm
  <2>. QED
    BY <1>2, <1>5, <2>1 DEF FacadeInv, ObjectInv
<1>7. ASSUME NEW c \in Settling, Volume = [content |-> c, key |-> files[gen].key]
      PROVE  Mem' = Volume.content
  <2>1. Volume # None
    <3>1. c \in Content
      BY DEF Settling, Content, Share
    <3>. QED
      BY <1>2, <1>7, <3>1, MarkerAssumption
  <2>2. Sealed /\ OnDisk = c /\ disk[1].key = files[gen].key
    <3>1. Sealed /\ Volume = [content |-> OnDisk, key |-> disk[1].key]
      BY <2>1 DEF Volume
    <3>2. Volume.content = OnDisk /\ Volume.key = disk[1].key
      BY <3>1
    <3>3. Volume.content = c /\ Volume.key = files[gen].key
      BY <1>7
    <3>. QED
      BY <3>1, <3>2, <3>3
  <2>3. \A f \in File : disk[f].key = files[gen].key /\ disk[f].data = c[f]
    BY <2>2 DEF Sealed, OnDisk
  <2>4. store'[vs].data = c
    BY <2>3, ContentComesBack
  <2>. QED
    BY <1>5, <1>7, <2>4
<1>8. Volume' = Volume
  BY <1>1, VolumeFrame
<1>. QED
  BY <1>1, <1>2, <1>4, <1>6, <1>7, <1>8, StoreLoads

\* A Save returns when its volume is durable.
LEMMA SaveReturnRefines ==
    ASSUME FacadeInv, SaveReturn
    PROVE  Durable!Next
<1>1. /\ op.name = "save" /\ op' = Idle /\ before' = None /\ attempt' = None
      /\ UNCHANGED <<disk, holders, loadKey, result>>
  BY DEF SaveReturn
<1>2. /\ Saving /\ ~Saving' /\ result = "ok" /\ vs' = vs /\ mvs' = vs /\ vs = mvs /\ vs # None
      /\ store'[vs] = store[vs]
      /\ files[gen].key = loadKey /\ files[gen].key \in Key
      /\ \A f \in File : disk[f] = PieceOf(store[vs].data, files[gen].key, f)
  <2>1. /\ saved'.key \in Key
        /\ saved' = [content |-> store[vs].data, key |-> files[gen].key]
    BY SaveReturnKeeps
  <2>2. files[gen].key \in Key
    BY <2>1
  <2>. QED
    BY <2>2, SaveReturnKeeps
<1>3. Mem = store[vs].data /\ Mem \in Settling
  BY <1>1, <1>2, MemInUse DEF Calm
<1>4. Mem' = Mem
  BY <1>1, <1>2, <1>3 DEF Mem, Idle
<1>5. Volume = [content |-> Mem, key |-> loadKey]
  <2>1. holders \subseteq File
    BY DEF FacadeInv, TypeInv
  <2>. QED
    BY <1>2, <1>3, <2>1, WholeVolume
<1>6. Volume' = Volume
  BY <1>1, VolumeFrame
<1>. QED
  BY <1>1, <1>2, <1>4, <1>5, <1>6, StoreSaved

\* An exception ends a call.
LEMMA CallThrowRefines ==
    ASSUME FacadeInv, CallThrow
    PROVE  Durable!Next
<1>1. /\ SameMemory /\ op # Idle /\ op' = Idle /\ result' = "threw"
      /\ (\A c \in Batches : batch'[c] = NoBatch) \/ batch' = batch
      /\ UNCHANGED <<disk, holders, loadKey, before, attempt>>
  BY CallThrowKeeps DEF CallThrow, savingVars
<1>2. Saving' => Saving
  BY <1>1 DEF Saving, NoBatch
<1>3. Mem' = Mem
  <2>1. op'.name # "load" /\ op.name \in {"load", "save"} /\ op.batch \in Batches
    BY <1>1, CallBatch DEF Idle
  <2>2. op.name = "load" => vs # mvs
    BY <1>1, <2>1, CallBatch, LoadBatchUses
  <2>. QED
    BY <1>1, <2>1, <2>2 DEF Mem, SameMemory
<1>4. Volume' = Volume
  BY <1>1, VolumeFrame
<1>. QED
  BY <1>1, <1>2, <1>3, <1>4, StoreThrows

\* A crash loses the memory and nothing else.
LEMMA RestartRefines ==
    ASSUME FacadeInv, Restart
    PROVE  Durable!Next
<1>1. /\ ~Saving' /\ vs' = None /\ result' = "ok" /\ loadKey' = None
      /\ UNCHANGED <<disk, holders, before, attempt>>
  BY RestartKeeps DEF Restart, savingVars
<1>2. Mem' = None
  BY <1>1 DEF Mem
<1>. QED
  BY <1>1, <1>2, VolumeFrame, StoreForgets

\* No picture is a volume before the first Save.
LEMMA StoreInit ==
    ASSUME Init
    PROVE  Durable!Init /\ ClaimInv
<1>1. /\ vs = None /\ disk = [f \in File |-> Foreign] /\ holders \subseteq File /\ holders # {}
      /\ loadKey = None /\ before = None /\ attempt = None /\ result = "ok"
      /\ \A c \in Batches : batch[c].kind = "none"
  BY DEF Init, EmptyMemory, NoBatch
<1>2. 1 \in File /\ Foreign.key = None
  BY StorageAssumption, ForeignIsPiece DEF File
<1>3. Volume = None
  BY <1>1, <1>2 DEF Volume, Sealed
<1>4. Claimed = None
  <2>1. PICK h \in holders : h \in File
    BY <1>1
  <2>. QED
    BY <1>1, <1>2, <2>1, ClaimOfHolder
<1>5. Mem = None /\ ~Saving
  BY <1>1 DEF Mem, Saving
<1>. QED
  BY <1>1, <1>3, <1>4, <1>5 DEF Durable!Init, ClaimInv, Mem, Saving

\* The claims are an invariant.
THEOREM ClaimInvariant == ASSUME ~RetryAfterFailure PROVE Spec => []ClaimInv
<1>1. Init => ClaimInv
  BY StoreInit
<1>2. FacadeInv /\ ClaimInv /\ [Next]_vars => ClaimInv'
  BY ClaimNext
<1>. QED
  BY <1>1, <1>2, FacadeInvariant, PTL DEF Spec

\* For a client that opens before it loads and gives the process up after an
\* exception, the system is a durable store, whatever fails and whenever it
\* crashes.
THEOREM StorageIsDurable ==
    ASSUME ReopenBeforeLoad, ~RetryAfterFailure PROVE Spec => ImplementsDurableStore
<1>1. Init => Durable!Init
  BY StoreInit
<1>2. FacadeInv /\ LoadInv /\ ClaimInv /\ [Next]_vars => [Durable!Next]_(Durable!vars)
  <2>1. SUFFICES ASSUME FacadeInv, LoadInv, ClaimInv, [Next]_vars
                 PROVE  Durable!Next \/ UNCHANGED Durable!vars
    OBVIOUS
  <2>2. CASE UNCHANGED vars
    <3>1. Mem' = Mem /\ UNCHANGED Rest /\ (Saving' <=> Saving)
      BY <2>2 DEF vars, memoryVars, auxVars, savingVars, Mem, Rest, Saving, Volume, Sealed, OnDisk
    <3>. QED
      BY <3>1, StoreStutters
  <2>3. CASE Client
    BY <2>1, <2>3, ClientRefines
  <2>4. ASSUME NEW b \in Batches, NEW f \in File, Task(b, f)
        PROVE  Durable!Next \/ UNCHANGED Durable!vars
    BY <2>1, <2>4, TaskRefines
  <2>5. CASE Return
    BY <2>1, <2>5, LoadReturnRefines, SaveReturnRefines, CallThrowRefines DEF Return
  <2>6. CASE Restart
    BY <2>1, <2>6, RestartRefines
  <2>. QED
    BY <2>1, <2>2, <2>3, <2>4, <2>5, <2>6 DEF Next
<1>. QED
  BY <1>1, <1>2, FacadeInvariant, LoadInvariant, ClaimInvariant, PTL
     DEF Spec, ImplementsDurableStore, Durable!Spec
===============================================================================
