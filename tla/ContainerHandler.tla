-------------------------- MODULE ContainerHandler --------------------------
(***************************************************************************)
(* ContainerHandler: the packets of a video file, read once by Load and    *)
(* written back by Save into the same file.                                *)
(*                                                                         *)
(* Save goes through its packets one by one and releases each as soon as   *)
(* it is written; at the end it closes the input, from which the next Save *)
(* would take the streams.  From avio_open to the trailer the file is no   *)
(* container.  Every step may fail, and the process may end at any time.   *)
(*                                                                         *)
(* The muxer (FFmpeg) is external: it takes a packet whose pts is not      *)
(* below its dts and whose dts is above that of the packet before it in    *)
(* the same stream, and a finished file is read back as it was written.    *)
(* A file has at most one stream of each type.                             *)
(***************************************************************************)
EXTENDS Integers, Sequences, FiniteSets

CONSTANTS
    Containers, \* the packets of video files: [type, pts, dts, data]
    Detections, \* how B frames are found: "guess", "ffprobe yes", "ffprobe no"
    NoPts,      \* AV_NOPTS_VALUE: even, and above every other time as unsigned
    None

Packet == [type : STRING, pts : Int, dts : Int, data : BOOLEAN]

\* A file is what a muxer has accepted, and nothing of it is missing.
ASSUME ContainerAssumption ==
    /\ \A c \in Containers : /\ c \in Seq(Packet)
                             /\ \A i \in DOMAIN c : c[i].data /\ c[i].pts >= c[i].dts
    /\ Detections \subseteq {"guess", "ffprobe yes", "ffprobe no"}
    /\ NoPts \in Int
    /\ None \notin [packets : Seq(Packet), bframes : BOOLEAN, input : BOOLEAN]

VARIABLES
    detection,
    given,   \* auxiliary: the packets of the file in the beginning
    disk,    \* the file: its packets, or None while it is no container
    handler, \* the ContainerHandler, or None: [packets, bframes, input]
    save,    \* its Save: [st, out]
    failed   \* auxiliary: a Save of this handler has failed

handlerVars == <<detection, given, disk, handler, save, failed>>

Abs(n) == IF n < 0 THEN -n ELSE n
Packets(type, ps) == {i \in DOMAIN ps : ps[i].type = type}

\* av_packet_unref.
Released(p) == [p EXCEPT !.pts = NoPts, !.dts = NoPts, !.data = FALSE]

NoSave == [st |-> "none", out |-> <<>>]

HandlerInit ==
    /\ detection \in Detections
    /\ given \in Containers
    /\ disk = given
    /\ handler = None
    /\ save = NoSave
    /\ failed = FALSE

\* Mutant of HasBFrames: only delays of at least three count.
HasBFramesFromThree(ps) ==
    CASE detection = "ffprobe yes" -> TRUE
      [] detection = "ffprobe no" -> FALSE
      [] detection = "guess" -> \E i \in Packets("video", ps) : Abs(ps[i].pts - ps[i].dts) >= 3

\* BFrameDetection and, without ffprobe, the guess.
HasBFrames(ps) ==
    CASE detection = "ffprobe yes" -> TRUE
      [] detection = "ffprobe no" -> FALSE
      [] detection = "guess" -> \E i \in Packets("video", ps) : Abs(ps[i].pts - ps[i].dts) >= 2

\* A new handler after Init and Load, of a file that is a container.
Loaded == [packets |-> disk, bframes |-> HasBFrames(disk), input |-> TRUE]

Reset == handler' = None /\ save' = NoSave /\ failed' = FALSE

\* The process ends.
Crash ==
    /\ handler # None
    /\ Reset
    /\ UNCHANGED <<detection, given, disk>>

-----------------------------------------------------------------------------
(* Save, after the packets got their new times.                            *)

Throw == save' = NoSave /\ failed' = TRUE

\* avformat_alloc_output_context2, or later avio_open on the file.
SaveOpenFails ==
    /\ save.st = "begun"
    /\ Throw
    /\ UNCHANGED <<detection, given, disk, handler>>

\* Mutant of SaveWithoutInput: Close has kept the input.
SaveWithKeptInput ==
    /\ save.st = "begun" /\ ~handler.input
    /\ disk' = None
    /\ save' = [save EXCEPT !.st = "writing"]
    /\ UNCHANGED <<detection, given, handler, failed>>

\* The loop over input_context_->streams after Close: a null pointer.
SaveWithoutInput ==
    /\ save.st = "begun" /\ ~handler.input
    /\ Reset
    /\ UNCHANGED <<detection, given, disk>>

\* avio_open truncates the file.
SaveOpen ==
    /\ save.st = "begun" /\ handler.input
    /\ disk' = None
    /\ save' = [save EXCEPT !.st = "writing"]
    /\ UNCHANGED <<detection, given, handler, failed>>

Next1 == handler.packets[Len(save.out) + 1]

\* av_write_frame: external.
Accepts(out, p) ==
    /\ p.pts >= p.dts
    /\ \A i \in Packets(p.type, out) : out[i].dts < p.dts

WritePacket ==
    /\ save.st = "writing"
    /\ Len(save.out) < Len(handler.packets)
    /\ \/ ~Next1.data
       \/ Accepts(save.out, Next1)
    /\ save' = [save EXCEPT !.out = Append(@, Next1)]
    /\ handler' = [handler EXCEPT !.packets[Len(save.out) + 1] = Released(@)]
    /\ UNCHANGED <<detection, given, disk, failed>>

\* The muxer refuses, or the disk is full.
WriteFails ==
    /\ save.st = "writing"
    /\ Throw
    /\ UNCHANGED <<detection, given, disk, handler>>

\* av_write_trailer and Close.
Trailer ==
    /\ save.st = "writing"
    /\ Len(save.out) = Len(handler.packets)
    /\ disk' = save.out
    /\ handler' = [handler EXCEPT !.input = FALSE]
    /\ save' = NoSave
    /\ UNCHANGED <<detection, given, failed>>
=============================================================================
