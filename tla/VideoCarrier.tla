---------------------------- MODULE VideoCarrier ----------------------------
(***************************************************************************)
(* CarrierFileMKV and CarrierFileMPEG: bits in the lowest bit of the       *)
(* presentation times (pts) of the packets of a video.                     *)
(*                                                                         *)
(* Which packets take a bit, and in which order, is worked out anew from   *)
(* the packets by CalculateCapacity, LoadBuffer and SaveBuffer, also after *)
(* the file was saved and opened again.  Permutation and encoder           *)
(* (Permutation.tla, HammingCode.tla) are left out: "content" is what the  *)
(* carrier's part of the storage makes of the bits, one for one.           *)
(***************************************************************************)
EXTENDS ContainerHandler

CONSTANTS
    Kinds,   \* "mkv", "mp4"
    ByteBits, \* packets that make a byte of capacity: 8
    Contents(_), \* what is written into a volume of that many bits
    MaxRetries \* bound on the Saves that follow a failed one of the same object

ASSUME VideoAssumption ==
    /\ Kinds \subseteq {"mkv", "mp4"}
    /\ ByteBits \in Nat \ {0} /\ MaxRetries \in Nat
    /\ NoPts >= 0 /\ NoPts % 2 = 0

VARIABLES
    kind,
    size,    \* raw_capacity_ * 8, of the object in memory
    content, \* the bits of the storage, or None before LoadFile
    saved,   \* auxiliary: the bits in the file if a Save has ended well, and
             \* whether the handler saw B frames
    retries  \* auxiliary: Saves called on an object whose last one failed

vars == <<handlerVars, kind, size, content, saved, retries>>

Init ==
    /\ HandlerInit
    /\ kind \in Kinds
    /\ size = 0
    /\ content = None
    /\ saved = None
    /\ retries = 0

-----------------------------------------------------------------------------
(* The packets that take a bit.                                            *)

\* The loops go through the packets in their order: packet i of S is the k-th if
\* k - 1 of S come before it.
Ascending(S) ==
    [k \in 1..Cardinality(S) |-> CHOOSE i \in S : Cardinality({j \in S : j < i}) = k - 1]

ModifyLSB(value, lsb) == value - (value % 2) + lsb

\* GetTestValues: with either bit, pts is not below dts.
Applicable(p) == ModifyLSB(p.pts, 0) >= p.dts /\ ModifyLSB(p.pts, 1) >= p.dts

VideoSlots(h) ==
    {i \in Packets("video", h.packets) : h.bframes => Applicable(h.packets[i])}

\* In the order of the buffer.
Slots(h) ==
    IF kind = "mkv" THEN Ascending(DOMAIN h.packets)
    ELSE Ascending(VideoSlots(h)) \o Ascending(Packets("audio", h.packets))

\* Mutant of CalculateCapacity: a last incomplete byte counts.
CalculateCapacityRoundedUp(h) == (Len(Slots(h)) + ByteBits - 1) \div ByteBits

CalculateCapacity(h) == Len(Slots(h)) \div ByteBits

\* The loops end when the buffer is full, but the one over the audio packets
\* is entered all the same, and writes behind the end of the buffer: it throws.
Overruns(h) ==
    /\ kind = "mp4"
    /\ Cardinality(VideoSlots(h)) >= size
    /\ Packets("audio", h.packets) # {}

\* Mutant of LoadBuffer: reads the packets that Save has left out, too.
LoadBufferUnfiltered(h) ==
    LET slots == Ascending(Packets("video", h.packets)) \o Ascending(Packets("audio", h.packets)) IN
    [i \in 1..size |-> IF i <= Len(slots) THEN h.packets[slots[i]].pts % 2 ELSE 0]

\* The buffer is cleared first.
LoadBuffer(h) ==
    LET slots == Slots(h) IN
    [i \in 1..size |-> IF i <= Len(slots) THEN h.packets[slots[i]].pts % 2 ELSE 0]

\* Mutant of WriteBit: dts is left alone, also without B frames.
WriteBitKeepingDts(h, i, bit) ==
    [h.packets[i] EXCEPT !.pts = ModifyLSB(@, bit)]

\* WriteByte (MP4), and the body of SaveBuffer (MKV).
WriteBit(h, i, bit) ==
    LET p == h.packets[i]
        pts == ModifyLSB(p.pts, bit)
    IN  [p EXCEPT !.pts = pts,
                  !.dts = IF kind = "mkv" THEN (IF pts < p.dts THEN pts ELSE p.dts)
                          ELSE IF p.type = "video" /\ h.bframes THEN p.dts
                          ELSE pts]

SaveBuffer(h, bits) ==
    LET slots == Slots(h)
        at(i) == {k \in 1..size : k <= Len(slots) /\ slots[k] = i}
    IN  [i \in DOMAIN h.packets |->
            IF at(i) = {} THEN h.packets[i]
            ELSE WriteBit(h, i, bits[CHOOSE k \in at(i) : TRUE])]

-----------------------------------------------------------------------------

\* A new object for the file, as StegoStorage::Open makes it; CreateCarrierFile
\* drops one without a byte of capacity.
Construct ==
    /\ save = NoSave
    /\ IF disk = None \/ CalculateCapacity(Loaded) = 0
       THEN handler' = None /\ size' = 0
       ELSE handler' = Loaded /\ size' = CalculateCapacity(Loaded) * ByteBits
    /\ failed' = FALSE
    /\ content' = None
    /\ UNCHANGED <<detection, given, disk, save, kind, saved, retries>>

MayCall == handler # None /\ save = NoSave

LoadFile ==
    /\ MayCall
    /\ ~Overruns(handler)
    /\ content' = LoadBuffer(handler)
    /\ UNCHANGED <<handlerVars, kind, size, saved, retries>>

\* Somebody writes into the mounted volume.
WriteContent(bits) ==
    /\ MayCall /\ content # None
    /\ bits \in [1..size -> 0..1]
    /\ content' = bits
    /\ UNCHANGED <<handlerVars, kind, size, saved, retries>>

\* SaveFile reads the buffer from the packets, embeds, and changes the packets;
\* what it read is not the object's content.
SaveFile ==
    /\ MayCall /\ content # None
    /\ ~Overruns(handler)
    /\ handler' = [handler EXCEPT !.packets = SaveBuffer(handler, content)]
    /\ save' = [NoSave EXCEPT !.st = "begun"]
    /\ failed' = FALSE
    /\ retries' = retries + (IF failed THEN 1 ELSE 0) /\ retries' <= MaxRetries
    /\ UNCHANGED <<detection, given, disk, kind, size, content, saved>>

SaveOpens == SaveOpen /\ saved' = None /\ UNCHANGED <<kind, size, content, retries>>
SaveThrows == (SaveOpenFails \/ WriteFails) /\ UNCHANGED <<kind, size, content, saved, retries>>
SaveWrites == WritePacket /\ UNCHANGED <<kind, size, content, saved, retries>>

SaveEnds ==
    /\ Trailer
    /\ saved' = [bits |-> content, bframes |-> handler.bframes]
    /\ UNCHANGED <<kind, size, content, retries>>

ProcessEnds ==
    /\ SaveWithoutInput \/ Crash
    /\ size' = 0
    /\ content' = None
    /\ UNCHANGED <<kind, saved, retries>>

Next ==
    \/ Construct \/ LoadFile \/ SaveFile
    \/ \E bits \in Contents(size) : WriteContent(bits)
    \/ SaveOpens \/ SaveThrows \/ SaveWrites \/ SaveEnds
    \/ ProcessEnds

Spec == Init /\ [][Next]_vars

-----------------------------------------------------------------------------
(* Why it works: the inductive invariant behind the properties below.      *)

SameStreams(ps) ==
    /\ ps \in Seq(Packet) /\ Len(ps) = Len(given)
    /\ \A i \in DOMAIN given : ps[i].type = given[i].type

\* No packet is released.
Whole(ps) == \A i \in DOMAIN ps : ps[i].data

\* What a Save may have made of a packet g: its pts has the same upper bits, and
\* its dts has not moved past it.
DescendsFrom(p, g) ==
    /\ ModifyLSB(p.pts, 0) = ModifyLSB(g.pts, 0)
    /\ p.pts >= p.dts
    /\ kind = "mkv" => g.dts - 1 <= p.dts /\ p.dts <= g.dts
    /\ kind = "mp4" /\ p.type \in {"video", "audio"} => p.dts = g.dts \/ p.dts = p.pts
    /\ kind = "mp4" /\ p.type \notin {"video", "audio"} => p = g

\* Some video packet is further ahead than the bit can take back; none is ahead by
\* what the guess takes for B frames.
FarAhead == \E i \in Packets("video", given) : ModifyLSB(given[i].pts, 0) - given[i].dts >= 2
Near == \A i \in Packets("video", given) : given[i].pts - given[i].dts < 2

\* The packets ps fit the answer b of the search for B frames: video is decoded
\* when it was, or will be guessed to have none.
FitsAnswer(ps, b) ==
    /\ detection = "ffprobe yes" => b
    /\ detection = "ffprobe no" => ~b
    /\ b => \A i \in Packets("video", given) : ps[i].dts = given[i].dts
    /\ detection = "guess" =>
           (~b => ~HasBFrames(ps)) /\ (FarAhead => b) /\ (Near => ~b)

Descendant(ps, b) ==
    /\ SameStreams(ps)
    /\ Whole(ps) => /\ \A i \in DOMAIN given : DescendsFrom(ps[i], given[i])
                    /\ kind = "mp4" => FitsAnswer(ps, b)

\* The packets a Save in progress will have written, and the handler with them.
Coming ==
    [i \in DOMAIN handler.packets |->
        IF i <= Len(save.out) THEN save.out[i] ELSE handler.packets[i]]
Ahead == [handler EXCEPT !.packets = Coming]

HandlerTypes ==
    /\ detection \in Detections /\ given \in Containers /\ kind \in Kinds
    /\ failed \in BOOLEAN /\ retries \in Nat /\ size \in Nat
    /\ content # None => content \in [1..size -> 0..1]
    /\ handler # None =>
           /\ handler \in [packets : Seq(Packet), bframes : BOOLEAN, input : BOOLEAN]
           /\ Len(handler.packets) = Len(given) /\ Len(given) > 0
    /\ save \in [st : {"none", "begun", "writing"}, out : Seq(Packet)]
    /\ save.st # "writing" => save.out = <<>>
    /\ save.st # "none" => handler # None /\ content # None /\ ~failed
    /\ save.st = "writing" => handler.input
    /\ handler # None =>
           /\ Len(save.out) <= Len(handler.packets)
           /\ \A i \in 1..Len(save.out) : ~handler.packets[i].data

\* The file, and what a Save makes of it, descend from the original.
FilesInv ==
    /\ disk # None => Descendant(disk, HasBFrames(disk))
    /\ handler # None => Descendant(Coming, handler.bframes) /\ SameStreams(handler.packets)

\* Nothing is released too early as long as nobody retries.
FramesInv ==
    retries = 0 =>
        /\ disk # None => Whole(disk)
        /\ handler # None /\ handler.input /\ ~failed => Whole(Coming)

\* An object that has not been saved is a copy of the file.
CopyInv ==
    handler # None /\ save.st = "none" /\ ~failed /\ Whole(handler.packets) =>
        /\ disk # None /\ handler.packets = disk
        /\ handler.bframes = HasBFrames(disk)

Room(h) == CalculateCapacity(h) * ByteBits
BitsIn(h) == [i \in 1..Room(h) |-> h.packets[Slots(h)[i]].pts % 2]

\* The bits are in the packets that are being written, and after that in the file.
BitsInv ==
    /\ handler # None /\ Whole(Coming) => size = Room(Ahead)
    /\ save.st # "none" /\ Whole(Coming) => content = BitsIn(Ahead)
    /\ saved # None /\ disk # None /\ Whole(disk) =>
           saved.bits = BitsIn([packets |-> disk, bframes |-> saved.bframes, input |-> TRUE])

VideoInv == HandlerTypes /\ FilesInv /\ FramesInv /\ CopyInv /\ BitsInv

-----------------------------------------------------------------------------

\* A new object: no Save has changed its packets.
Fresh == handler # None /\ ~failed /\ \A i \in DOMAIN handler.packets : handler.packets[i].data

\* What a Save that ended well put into a video is what LoadFile of a new
\* object finds, whatever streams it has, as long as the search for B frames
\* (which MKV does not use) answers the same as before: a Save changes neither
\* the packets that take a bit nor their order.
RoundTrip ==
    [][Fresh /\ LoadFile /\ saved # None =>
          \/ content' = saved.bits
          \/ kind = "mp4" /\ handler.bframes # saved.bframes]_vars

\* MP4: the guess made without ffprobe survives a Save, though it looks at the very
\* times that Save changes, if one video packet of the original file is far
\* enough ahead: more than the bit can take back.
GuessSurvives ==
    kind = "mp4" /\ detection = "guess" /\ Fresh /\ save = NoSave =>
        /\ FarAhead => handler.bframes
        /\ Near => ~handler.bframes

\* The packets of every stream are at least three ticks apart, and those of audio
\* are heard when they are decoded.
Spaced ==
    /\ \A i, j \in DOMAIN given : i < j /\ given[i].type = given[j].type =>
           given[j].dts - given[i].dts >= 3
    /\ \A i \in Packets("audio", given) : given[i].pts = given[i].dts

\* Embedding never makes times the muxer refuses, which would leave half a
\* file: in a file with reasonable times whose B frames were seen, every packet
\* that Save comes to is accepted, in MKV and MP4.  ~Near: some frames are shown
\* in another order than they are stored, or much later.
MuxerAccepts ==
    /\ save.st = "writing" /\ retries = 0 /\ Spaced /\ (~Near => handler.bframes \/ kind = "mkv")
    /\ Len(save.out) < Len(handler.packets)
    => Accepts(save.out, Next1)

\* A file that is a container holds every frame it held in the beginning, and
\* the streams that take no bits as they were, however often it is saved: no
\* Save writes packets that an earlier one has released.  (Who goes on with an
\* object after one of its Saves failed loses frames.)
FramesSurvive ==
    disk # None /\ retries = 0 =>
        /\ Len(disk) = Len(given)
        /\ \A i \in DOMAIN disk : disk[i].data /\ disk[i].type = given[i].type
        /\ kind = "mp4" => \A i \in Packets("other", given) : disk[i] = given[i]

\* An MP4 file can be loaded or it cannot, whatever was saved into it: LoadFile
\* throws if all audio packets of the original file are left over when the bits
\* are counted in bytes, and only then.
RefusedExactly ==
    Fresh /\ save = NoSave =>
        LET v == Cardinality(VideoSlots([handler EXCEPT !.packets = given]))
            a == Cardinality(Packets("audio", given))
        IN  Overruns(handler) <=> kind = "mp4" /\ a > 0 /\ a <= (a + v) % ByteBits
=============================================================================
