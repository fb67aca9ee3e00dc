----------------------------- MODULE FuseService -----------------------------
(***************************************************************************)
(* FuseService: the volume as a file of a FUSE file system.                *)
(*                                                                         *)
(* MountFuse forks.  The child runs fuse_main with its copy of the         *)
(* process's memory, the storage included; the parent installs its signal  *)
(* handlers and then waits in waitpid.  The first listing of the directory *)
(* sends SIGUSR1 to the parent, the end of the file system SIGUSR2.  The   *)
(* handlers do nothing, but they are installed without SA_RESTART, so a    *)
(* signal that comes while the parent is in waitpid ends it; before the    *)
(* handlers are there it ends the process, and between the two it goes     *)
(* unnoticed.  SIGCHLD is never handled.                                   *)
(*                                                                         *)
(* fuse_main is multithreaded and no callback takes a lock.  umount fails  *)
(* while a callback is running.                                            *)
(*                                                                         *)
(* The application saves and exits.  That it may also load again, as       *)
(* tests/stego_fuse_test.cc does, is the subject of StegoStorage.tla.      *)
(***************************************************************************)
EXTENDS MountedVolume

VARIABLES
    child,     \* the forked process: "none", "starting", "mounted", "ended"
    listed,    \* fuse_mounted_ in the child
    handlers,  \* the application has run sigaction for SIGUSR1 and SIGUSR2
    signals    \* signals that are pending for the application

fuseVars == <<child, listed, handlers, signals>>

FuseIdle == child = "none" /\ listed = FALSE /\ handlers = FALSE /\ signals = {}

FuseServiceInit ==
    /\ app = "loaded"
    /\ capacity' = GetSize
    /\ app' = "ready"
    /\ UNCHANGED <<service, data, save, stored, request, touched, file, fuseVars>>

\* The child gets a copy of the memory.
Fork ==
    /\ app = "ready"
    /\ child' = "starting"
    /\ app' = "forked"
    /\ data' = [data EXCEPT !["child"] = data["app"]]
    /\ UNCHANGED <<service, capacity, save, stored, request, touched, file,
                   listed, handlers, signals>>

ForkFails ==
    /\ app = "ready"
    /\ app' = "not mounted"
    /\ UNCHANGED <<service, capacity, data, save, stored, request, touched, file,
                   fuseVars>>

InstallHandlers ==
    /\ app = "forked"
    /\ handlers' = TRUE
    /\ app' = "handling"
    /\ UNCHANGED <<service, capacity, data, save, stored, request, touched, file,
                   child, listed, signals>>

WaitPid ==
    /\ app = "handling"
    /\ app' = "waiting"
    /\ UNCHANGED <<service, capacity, data, save, stored, request, touched, file,
                   fuseVars>>

\* waitpid returns, and MountFuse with it, whether or not the file system is
\* still mounted.
MountFuseReturns ==
    /\ app = "waiting"
    /\ child = "ended"
    /\ app' = "serving"
    /\ UNCHANGED <<service, capacity, data, save, stored, request, touched, file,
                   fuseVars>>

\* Mutant of fuseSignalHandler: with SA_RESTART, waitpid goes on.
RestartingSignalHandler(sig) ==
    /\ sig \in signals
    /\ signals' = signals \ {sig}
    /\ app' = IF handlers THEN app ELSE "killed"
    /\ UNCHANGED <<service, capacity, data, save, stored, request, touched, file,
                   child, listed, handlers>>

\* waitpid fails with EINTR if the signal has a handler and comes meanwhile.
fuseSignalHandler(sig) ==
    /\ sig \in signals
    /\ signals' = signals \ {sig}
    /\ app' = CASE ~handlers -> "killed"
                [] handlers /\ app = "waiting" -> "serving"
                [] OTHER -> app
    /\ UNCHANGED <<service, capacity, data, save, stored, request, touched, file,
                   child, listed, handlers>>

FuseMainMounts ==
    /\ child = "starting"
    /\ child' = "mounted"
    /\ UNCHANGED <<volumeVars, listed, handlers, signals>>

\* fuse_main returns at once, without a call of sfs_destroy.
FuseMainFails ==
    /\ child = "starting"
    /\ child' = "ended"
    /\ UNCHANGED <<volumeVars, listed, handlers, signals>>

Signal(sig) ==
    signals' = IF app \in {"killed", "exited"} THEN signals ELSE signals \cup {sig}

\* Of the root directory.
sfs_readdir ==
    /\ child = "mounted"
    /\ ~listed
    /\ listed' = TRUE
    /\ Signal("SIGUSR1")
    /\ UNCHANGED <<volumeVars, child, handlers>>

\* getattr, access, open, create, mkdir, ..., a later listing, and requests
\* that are refused: answers that the volume's bytes have no part in.
sfs_info(t) ==
    /\ child = "mounted"
    /\ Info(t)
    /\ UNCHANGED fuseVars

sfs_read(t, offset, size) ==
    /\ child = "mounted"
    /\ Transfer(t, "read", offset, size, None)
    /\ UNCHANGED fuseVars

sfs_write(t, offset, size, v) ==
    /\ child = "mounted"
    /\ Transfer(t, "write", offset, size, v)
    /\ UNCHANGED fuseVars

\* A file system that is unmounted, by UnmountFuse or by anybody else:
\* sfs_destroy, and the end of the child.
sfs_destroy ==
    /\ child = "mounted"
    /\ Busy = {}
    /\ child' = "ended"
    /\ Signal("SIGUSR2")
    /\ UNCHANGED <<volumeVars, listed, handlers>>

FuseExit ==
    /\ app \in {"serving", "not mounted"} /\ save = NoSave
    /\ app' = "exited"
    /\ UNCHANGED <<service, capacity, data, save, stored, request, touched, file,
                   fuseVars>>

FuseApp ==
    \/ FuseServiceInit \/ Fork \/ ForkFails
    \/ InstallHandlers \/ WaitPid \/ MountFuseReturns
    \/ FuseExit
    \/ \E sig \in signals : fuseSignalHandler(sig)

FuseChild ==
    \/ FuseMainMounts \/ FuseMainFails
    \/ sfs_readdir \/ sfs_destroy
    \/ \E t \in Threads :
          \/ sfs_info(t)
          \/ \E offset \in Offsets, size \in Sizes :
                \/ sfs_read(t, offset, size)
                \/ \E v \in Values : sfs_write(t, offset, size, v)

FuseNext == FuseApp \/ FuseChild
==============================================================================
