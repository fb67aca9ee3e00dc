---------------------------- MODULE DokanService ----------------------------
(***************************************************************************)
(* DokanService: the volume as a file of a Dokan file system (Windows).    *)
(*                                                                         *)
(* DokanMain runs in a detached thread of the application and calls the    *)
(* callbacks from threads of its own.  Every callback holds dokan_mutex_   *)
(* from its first to its last statement; Save, which the application calls *)
(* itself, does not take it.  IsMounted waits on a condition variable that *)
(* SFSMounted notifies: under another mutex, and without a flag that       *)
(* IsMounted could look at.                                                *)
(*                                                                         *)
(* The program of the application is that of tests/stego_dokan_test.cc:    *)
(* Init, Mount, IsMounted, then Save, and at the end Unmount and exit.     *)
(***************************************************************************)
EXTENDS MountedVolume

VARIABLES
    driver,  \* DokanMain: "off", "mounting", "mounted", "failed", "unmounting"
    mutex    \* dokan_mutex_: the thread that holds it, or None

dokanVars == <<driver, mutex>>

DokanIdle == driver = "off" /\ mutex = None

DokanServiceInit ==
    /\ app = "loaded"
    /\ capacity' = GetSize
    /\ app' = "ready"
    /\ UNCHANGED <<service, data, save, stored, request, touched, file, dokanVars>>

\* The thread is started with dokan_mutex_ held; it is free again on return.
Mount ==
    /\ app = "ready"
    /\ mutex = None
    /\ driver' = "mounting"
    /\ app' = "mounting"
    /\ UNCHANGED <<service, capacity, data, save, stored, request, touched, file, mutex>>

IsMounted ==
    /\ app = "mounting"
    /\ app' = "waiting"
    /\ UNCHANGED <<service, capacity, data, save, stored, request, touched, file,
                   dokanVars>>

\* A wait may also end without a notification.
SpuriousWakeup ==
    /\ app = "waiting"
    /\ app' = "serving"
    /\ UNCHANGED <<service, capacity, data, save, stored, request, touched, file,
                   dokanVars>>

\* DokanMain returns an error nobody looks at.
DokanMainFails ==
    /\ driver = "mounting"
    /\ driver' = "failed"
    /\ UNCHANGED <<volumeVars, mutex>>

\* notify_one reaches IsMounted only if it waits already.
SFSMounted ==
    /\ driver = "mounting"
    /\ mutex = None
    /\ driver' = "mounted"
    /\ app' = IF app = "waiting" THEN "serving" ELSE app
    /\ UNCHANGED <<service, capacity, data, save, stored, request, touched, file, mutex>>

\* Mutant of Lock: the callbacks are not serialised.
NoLock(t) ==
    /\ driver \in {"mounted", "unmounting"}
    /\ app # "exited"
    /\ UNCHANGED dokanVars

Lock(t) ==
    /\ driver \in {"mounted", "unmounting"}
    /\ app # "exited"
    /\ mutex = None
    /\ mutex' = t
    /\ UNCHANGED driver

SFSReadFile(t, offset, size) ==
    /\ Transfer(t, "read", offset, size, None)
    /\ Lock(t)

SFSWriteFile(t, offset, size, v) ==
    /\ Transfer(t, "write", offset, size, v)
    /\ Lock(t)

\* SFSCreateFile, SFSFindFiles, SFSGetVolumeInformation, SFSGetFileInformation
\* and refused requests: answers that the volume's bytes have no part in.
SFSInfo(t) ==
    /\ Info(t)
    /\ Lock(t)

\* The end of a callback releases the mutex.
DokanReturn(t) ==
    /\ Return(t)
    /\ mutex' = None
    /\ UNCHANGED driver

Unmount ==
    /\ app = "serving" /\ save = NoSave
    /\ mutex = None
    /\ app' = "unmounted"
    /\ driver' = IF driver = "mounted" THEN "unmounting" ELSE driver
    /\ UNCHANGED <<service, capacity, data, save, stored, request, touched, file, mutex>>

SFSUnmounted ==
    /\ driver = "unmounting"
    /\ mutex = None
    /\ driver' = "off"
    /\ UNCHANGED <<volumeVars, mutex>>

\* exit(0): the threads of Dokan end wherever they are.
DokanExit ==
    /\ app = "unmounted"
    /\ app' = "exited"
    /\ request' = [t \in Threads |-> NoRequest]
    /\ mutex' = None
    /\ driver' = "off"
    /\ UNCHANGED <<service, capacity, data, save, stored, touched, file>>

DokanApp == DokanServiceInit \/ Mount \/ IsMounted \/ SpuriousWakeup \/ Unmount \/ DokanExit

DokanDriver ==
    \/ DokanMainFails \/ SFSMounted \/ SFSUnmounted
    \/ \E t \in Threads :
          \/ SFSInfo(t)
          \/ \E offset \in Offsets, size \in Sizes :
                \/ SFSReadFile(t, offset, size)
                \/ \E v \in Values : SFSWriteFile(t, offset, size, v)

DokanNext == DokanApp \/ DokanDriver
==============================================================================
