---------------------------- MODULE MountService ----------------------------
(***************************************************************************)
(* The volume, the application that loaded it, and the service the build   *)
(* has: FUSE or Dokan.                                                     *)
(***************************************************************************)
EXTENDS FuseService, DokanService

CONSTANT Services

vars == <<volumeVars, fuseVars, dokanVars>>

Init ==
    /\ service \in Services
    /\ VolumeInit
    /\ FuseIdle
    /\ DokanIdle

\* Steps of a callback, and of a Save.
Callback(t) ==
    \/ Copy(t) /\ UNCHANGED <<fuseVars, dokanVars>>
    \/ service = "fuse" /\ Return(t) /\ UNCHANGED <<fuseVars, dokanVars>>
    \/ service = "dokan" /\ DokanReturn(t) /\ UNCHANGED fuseVars
Saving == (SaveBegin \/ SaveStep) /\ UNCHANGED <<fuseVars, dokanVars>>

\* The application has ended, or it is stuck, and so is the file system.
Stopped ==
    /\ \/ app \in {"exited", "killed"}
       \/ service = "dokan" /\ app = "waiting"
    /\ child \in {"none", "ended"}
    /\ driver \in {"off", "failed"}
    /\ UNCHANGED vars

Next ==
    \/ service = "fuse" /\ FuseNext /\ UNCHANGED dokanVars
    \/ service = "dokan" /\ DokanNext /\ UNCHANGED fuseVars
    \/ \E t \in Threads : Callback(t)
    \/ Saving
    \/ Stopped

\* Threads of a process run; the kernel delivers signals.
Fairness ==
    /\ \A t \in Threads : WF_vars(Callback(t))
    /\ WF_vars(SaveStep /\ UNCHANGED <<fuseVars, dokanVars>>)
    /\ \A sig \in {"SIGUSR1", "SIGUSR2"} : WF_vars(service = "fuse" /\ fuseSignalHandler(sig) /\ UNCHANGED dokanVars)
    /\ WF_vars(service = "dokan" /\ IsMounted /\ UNCHANGED fuseVars)
    /\ WF_vars(service = "dokan" /\ (SFSMounted \/ DokanMainFails) /\ UNCHANGED fuseVars)

Spec == Init /\ [][Next]_vars
FairSpec == Spec /\ Fairness

-----------------------------------------------------------------------------

\* What the services pass on after their own tests, StegoStorage::Read and
\* Write never refuse, whatever the kernel asks for: no exception leaves a
\* callback, and memcpy stays inside the usable bytes of the storage, also for
\* offsets whose sum with the size is beyond 2^64.
NoCallbackThrows ==
    \A t \in Threads :
        /\ request[t].call # "threw"
        /\ request[t].call \in {"read", "write"} =>
               request[t].offset + request[t].length <= Capacity

\* A byte that no write is busy with holds what the last acknowledged write
\* gave it, unless two writes wrote it at the same time, which only FUSE does,
\* or the process is gone.
AcknowledgedWritesStay ==
    \A i \in Byte :
        \/ service = "dokan" /\ app = "exited"
        \/ \E t \in InFlight("write") : i \in Span(request[t])
        \/ file[i] = data[Server][i]
        \/ file[i] = None /\ service = "fuse"

\* Between two Saves the pictures hold, for each byte nobody wrote since the
\* last Save began, the value it has in the application, and the checksum is of
\* that value: a write that comes while Save runs, or after it, is the only
\* thing that can be missing from the pictures or spoil their checksum.
SavedUnlessTouched ==
    save = NoSave =>
        \A i \in Byte \ touched :
            stored.bytes[i] = data["app"][i] /\ stored.sum[i] = data["app"][i]

\* What is written into a FUSE file never gets into the pictures, whenever the
\* application saves, and however long the file stays mounted: the child writes
\* to its own copy of the storage, and the application saves the other one.
FuseSavesNothingNew == [][service = "fuse" => stored' = stored]_vars

\* Whoever waits for the file system before it is there is woken: IsMounted
\* when Dokan mounts later, MountFuse when its file is listed later.  (If Dokan
\* mounts first, IsMounted waits for ever: nobody notifies again.)
WaitersAreWoken ==
    /\ (service = "dokan" /\ app = "waiting" /\ driver = "mounting")
           ~> (app # "waiting" \/ driver = "failed")
    /\ (app = "waiting" /\ "SIGUSR1" \in signals) ~> app # "waiting"

=============================================================================
