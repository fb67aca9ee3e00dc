-------------------------- MODULE MountServiceProofs --------------------------
(***************************************************************************)
(* The mounted volume, for every capacity, word, set of requests and       *)
(* threads: no exception leaves a callback, what was acknowledged stays,   *)
(* a Save misses only what is written meanwhile, and FUSE stores nothing   *)
(* new.                                                                    *)
(*                                                                         *)
(* None of these is inductive.  MountInv adds what is known in the middle  *)
(* of a Save (its checksum so far, and the bytes already stored, are those *)
(* of the application wherever nobody wrote), what a write in flight has   *)
(* done, that its mixed bytes are all those it has in common with others,  *)
(* and that a callback of Dokan holds the mutex.                           *)
(***************************************************************************)
EXTENDS MountService, TLAPS

Request ==
    {r \in [call : {"read", "write"}, offset : Nat, length : Nat, done : Nat,
            value : Values \cup {None}, mixed : SUBSET Byte] :
        /\ r.offset + r.length <= Capacity
        /\ r.done <= r.length
        /\ r.call = "write" => r.value \in Values}

MountTypeInv ==
    /\ capacity \in {0, Capacity}
    /\ data \in [{"app", "child"} -> [Byte -> Values]]
    /\ stored \in [bytes : [Byte -> Values], sum : [Byte -> Values]]
    /\ save \in [st : {"none", "hash", "tasks"}, sum : Seq(Values), left : SUBSET Byte]
    /\ request \in [Threads -> [call : {"none", "info"}] \cup Request]
    /\ touched \subseteq Byte
    /\ file \in [Byte -> Values \cup {None}]

\* A Save knows the bytes of the application, except those written meanwhile.
SaveInv ==
    /\ save.st = "hash" => Len(save.sum) < Capacity
    /\ save.st = "tasks" => Len(save.sum) = Capacity
    /\ \A i \in Byte \ touched :
          /\ i < Len(save.sum) => save.sum[i+1] = data["app"][i]
          /\ save.st = "tasks" /\ i \notin save.left => stored.bytes[i] = data["app"][i]
    /\ SavedUnlessTouched

\* Nothing ever happens to the application's copy of a FUSE volume.
ForkInv ==
    service = "fuse" =>
        /\ touched = {}
        /\ stored.bytes = data["app"] /\ stored.sum = data["app"]
        /\ app \in {"loaded", "ready"} =>
               /\ child = "none"
               /\ data["child"] = data["app"]
               /\ \A t \in Threads : request[t].call = "none"

\* dokan_mutex_ belongs to the callback.
LockInv ==
    service = "dokan" =>
        \A t \in Threads :
            /\ request[t].call # "none" => mutex = t
            /\ request[t].call = "write" => request[t].mixed = {}

Writing(t) == request[t].call = "write"

WriteInv ==
    /\ \A t, u \in Threads :
          t # u /\ Writing(t) /\ Writing(u) =>
              Span(request[t]) \cap Span(request[u]) \subseteq request[t].mixed
    /\ \A t \in Threads : Writing(t) =>
          \A i \in Span(request[t]) \ request[t].mixed :
              i < request[t].offset + request[t].done => data[Server][i] = request[t].value
    /\ AcknowledgedWritesStay

MountInv == MountTypeInv /\ SaveInv /\ ForkInv /\ LockInv /\ WriteInv

-----------------------------------------------------------------------------
(* The classes of steps.                                                   *)

\* Steps of the application and the driver that move no byte.
Quiet ==
    /\ UNCHANGED <<service, data, save, stored, request, touched, file, mutex>>
    /\ capacity' \in {capacity, Capacity}
    /\ service = "dokan" /\ app = "exited" => app' = "exited"
    /\ service = "fuse" /\ app' \in {"loaded", "ready"} =>
           app \in {"loaded", "ready"} /\ child' = child

\* A callback begins in a process that serves.
Entered(t) ==
    /\ UNCHANGED <<child, app>>
    /\ \/ service = "fuse" /\ child = "mounted" /\ UNCHANGED mutex
       \/ service = "dokan" /\ mutex = None /\ mutex' = t

Begins(t) ==
    /\ Entered(t)
    /\ \/ Info(t)
       \/ \E offset \in Offsets, size \in Sizes :
             \/ Transfer(t, "read", offset, size, None)
             \/ \E v \in Values : Transfer(t, "write", offset, size, v)

\* Its end frees the mutex, if it holds one.
Ends(t) ==
    /\ Return(t)
    /\ UNCHANGED <<child, app>>
    /\ \/ service = "fuse" /\ UNCHANGED mutex
       \/ service = "dokan" /\ mutex' = None

\* Fork copies memory that is the same already.
LEMMA ForkIsQuiet == ASSUME MountInv, service = "fuse", Fork, UNCHANGED dokanVars
                     PROVE  Quiet
<1>1. data["child"] = data["app"] /\ data \in [{"app", "child"} -> [Byte -> Values]]
  BY DEF MountInv, ForkInv, MountTypeInv, Fork
<1>2. data' = data
  BY <1>1 DEF Fork
<1>. QED
  BY <1>2 DEF Fork, Quiet, dokanVars

\* Every step of FUSE's application and its child is of one of the classes.
LEMMA FuseSteps ==
    ASSUME MountInv, service = "fuse", FuseNext, UNCHANGED dokanVars
    PROVE  Quiet \/ \E t \in Threads : Begins(t)
<1>1. CASE FuseServiceInit \/ ForkFails \/ InstallHandlers \/ WaitPid \/ MountFuseReturns \/ FuseExit
  BY <1>1 DEF FuseServiceInit, ForkFails, InstallHandlers, WaitPid, MountFuseReturns, FuseExit,
              GetSize, Quiet, fuseVars, dokanVars
<1>2. CASE Fork
  BY <1>2, ForkIsQuiet
<1>3. CASE \E sig \in signals : fuseSignalHandler(sig)
  <2>1. PICK sig \in signals : fuseSignalHandler(sig)
    BY <1>3
  <2>2. app' \in {"killed", "serving", app}
    BY <2>1 DEF fuseSignalHandler
  <2>3. /\ UNCHANGED <<service, data, save, stored, request, touched, file, mutex>>
        /\ capacity' = capacity /\ child' = child
    BY <2>1 DEF fuseSignalHandler, dokanVars
  <2>. QED
    BY <2>2, <2>3 DEF Quiet
<1>4. CASE FuseMainMounts \/ FuseMainFails
  <2>1. app \notin {"loaded", "ready"}
    BY <1>4 DEF MountInv, ForkInv, FuseMainMounts, FuseMainFails
  <2>. QED
    BY <1>4, <2>1 DEF FuseMainMounts, FuseMainFails, Quiet, volumeVars, dokanVars
<1>5. CASE sfs_readdir \/ sfs_destroy
  <2>1. app \notin {"loaded", "ready"}
    BY <1>5 DEF MountInv, ForkInv, sfs_readdir, sfs_destroy
  <2>. QED
    BY <1>5, <2>1 DEF sfs_readdir, sfs_destroy, Quiet, volumeVars, dokanVars
<1>6. CASE \E t \in Threads : sfs_info(t)
  <2>1. PICK t \in Threads : sfs_info(t)
    BY <1>6
  <2>2. Entered(t)
    BY <2>1 DEF sfs_info, Entered, Info, fuseVars, dokanVars
  <2>. QED
    BY <2>1, <2>2 DEF sfs_info, Begins
<1>7. ASSUME NEW t \in Threads, NEW offset \in Offsets, NEW size \in Sizes,
             \/ sfs_read(t, offset, size)
             \/ \E v \in Values : sfs_write(t, offset, size, v)
      PROVE  Begins(t)
  <2>1. \/ Transfer(t, "read", offset, size, None)
        \/ \E v \in Values : Transfer(t, "write", offset, size, v)
    BY <1>7 DEF sfs_read, sfs_write
  <2>2. Entered(t)
    BY <1>7 DEF sfs_read, sfs_write, Transfer, Entered, fuseVars, dokanVars
  <2>. QED
    BY <2>1, <2>2 DEF Begins
<1>. QED
  BY <1>1, <1>2, <1>3, <1>4, <1>5, <1>6, <1>7 DEF FuseNext, FuseApp, FuseChild

\* So is every step of Dokan's, except the end of the process.
LEMMA DokanSteps ==
    ASSUME service = "dokan", DokanNext, UNCHANGED fuseVars
    PROVE  Quiet \/ DokanExit \/ \E t \in Threads : Begins(t)
<1>1. CASE DokanServiceInit \/ Mount \/ IsMounted \/ SpuriousWakeup \/ Unmount
  BY <1>1 DEF DokanServiceInit, Mount, IsMounted, SpuriousWakeup, Unmount, GetSize, Quiet,
              fuseVars, dokanVars
<1>2. CASE DokanMainFails \/ SFSMounted \/ SFSUnmounted
  BY <1>2 DEF DokanMainFails, SFSMounted, SFSUnmounted, Quiet, volumeVars, fuseVars, dokanVars
<1>3. CASE \E t \in Threads : SFSInfo(t)
  <2>1. PICK t \in Threads : SFSInfo(t)
    BY <1>3
  <2>2. Entered(t)
    BY <2>1 DEF SFSInfo, Entered, Info, Lock, fuseVars
  <2>. QED
    BY <2>1, <2>2 DEF SFSInfo, Begins
<1>4. ASSUME NEW t \in Threads, NEW offset \in Offsets, NEW size \in Sizes,
             \/ SFSReadFile(t, offset, size)
             \/ \E v \in Values : SFSWriteFile(t, offset, size, v)
      PROVE  Begins(t)
  <2>1. \/ Transfer(t, "read", offset, size, None)
        \/ \E v \in Values : Transfer(t, "write", offset, size, v)
    BY <1>4 DEF SFSReadFile, SFSWriteFile
  <2>2. Entered(t)
    BY <1>4 DEF SFSReadFile, SFSWriteFile, Transfer, Entered, Lock, fuseVars
  <2>. QED
    BY <2>1, <2>2 DEF Begins
<1>. QED
  BY <1>1, <1>2, <1>3, <1>4 DEF DokanNext, DokanApp, DokanDriver

\* All the steps there are.
LEMMA StepClasses ==
    ASSUME MountInv, [Next]_vars
    PROVE  \/ Quiet
           \/ service = "dokan" /\ DokanExit /\ UNCHANGED fuseVars
           \/ \E t \in Threads : Begins(t) \/ Ends(t)
           \/ \E t \in Threads : Copy(t) /\ UNCHANGED <<fuseVars, dokanVars>>
           \/ (SaveBegin \/ SaveStep) /\ UNCHANGED <<fuseVars, dokanVars>>
<1>1. CASE UNCHANGED vars
  BY <1>1 DEF vars, volumeVars, fuseVars, dokanVars, Quiet
<1>2. CASE service = "fuse" /\ FuseNext /\ UNCHANGED dokanVars
  BY <1>2, FuseSteps
<1>3. CASE service = "dokan" /\ DokanNext /\ UNCHANGED fuseVars
  BY <1>3, DokanSteps
<1>4. ASSUME NEW t \in Threads, Callback(t)
      PROVE  Ends(t) \/ (Copy(t) /\ UNCHANGED <<fuseVars, dokanVars>>)
  BY <1>4 DEF Callback, Ends, DokanReturn, Return, fuseVars, dokanVars
<1>5. CASE Saving \/ Stopped
  BY <1>1, <1>5 DEF Saving, Stopped
<1>. QED
  BY <1>1, <1>2, <1>3, <1>4, <1>5 DEF Next
-----------------------------------------------------------------------------
(* Each class keeps the invariant.                                         *)

\* The invariant holds at first: all copies of the bytes are the same.
LEMMA MountInvInit == Init => MountInv
<1> SUFFICES ASSUME Init PROVE MountInv
  OBVIOUS
<1>1. /\ file \in [Byte -> Values]
      /\ capacity = 0 /\ save = NoSave /\ touched = {}
      /\ data = [p \in {"app", "child"} |-> file]
      /\ stored = [bytes |-> file, sum |-> file]
      /\ request = [t \in Threads |-> NoRequest]
      /\ child = "none"
  BY ContentsAssumption DEF Init, VolumeInit, FuseIdle
<1>2. MountTypeInv
  BY <1>1 DEF MountTypeInv, NoSave, NoRequest
<1>3. SaveInv
  BY <1>1, VolumeAssumption DEF SaveInv, SavedUnlessTouched, NoSave, Byte
<1>4. ForkInv /\ LockInv
  BY <1>1 DEF ForkInv, LockInv, NoRequest
<1>5. WriteInv
  BY <1>1 DEF WriteInv, Writing, NoRequest, AcknowledgedWritesStay, Server
<1>. QED
  BY <1>2, <1>3, <1>4, <1>5 DEF MountInv

\* Steps that move no byte.
LEMMA QuietKeepsMount == ASSUME MountInv, Quiet PROVE MountInv'
<1>1. MountTypeInv'
  BY DEF MountInv, MountTypeInv, Quiet
<1>2. SaveInv'
  BY DEF MountInv, SaveInv, SavedUnlessTouched, Quiet
<1>3. ForkInv'
  BY DEF MountInv, ForkInv, Quiet
<1>4. LockInv'
  BY DEF MountInv, LockInv, Quiet
<1>5. WriteInv'
  <2>1. AcknowledgedWritesStay'
    BY DEF MountInv, WriteInv, AcknowledgedWritesStay, InFlight, Span, Server, Quiet
  <2>. QED
    BY <2>1 DEF MountInv, WriteInv, Writing, Span, Server, Quiet
<1>. QED
  BY <1>1, <1>2, <1>3, <1>4, <1>5 DEF MountInv

\* The end of the process takes every callback with it.
LEMMA ExitKeepsMount == ASSUME MountInv, service = "dokan", DokanExit, UNCHANGED fuseVars
                        PROVE  MountInv'
<1>1. /\ UNCHANGED <<service, capacity, data, save, stored, touched, file>>
      /\ app' = "exited" /\ request' = [t \in Threads |-> NoRequest]
  BY DEF DokanExit
<1>2. MountTypeInv'
  BY <1>1 DEF MountInv, MountTypeInv, NoRequest
<1>3. SaveInv'
  BY <1>1 DEF MountInv, SaveInv, SavedUnlessTouched
<1>4. ForkInv' /\ LockInv' /\ WriteInv'
  BY <1>1 DEF ForkInv, LockInv, WriteInv, Writing, NoRequest, AcknowledgedWritesStay
<1>. QED
  BY <1>2, <1>3, <1>4 DEF MountInv

\* A request that the service passes on is inside the storage: its offset is
\* less than the capacity, so that no sum is reduced modulo the word.
LEMMA TrimFits ==
    ASSUME capacity \in {0, Capacity}, NEW offset \in Offsets, NEW size \in Sizes,
           ~PastTheEnd(offset)
    PROVE  /\ offset \in Nat /\ Trim(offset, size) \in Nat
           /\ offset + Trim(offset, size) <= Capacity
           /\ ~OutOfRange(offset, Trim(offset, size))
<1>1. /\ Capacity \in Nat /\ Word \in Nat /\ Capacity < Word
      /\ offset \in Nat /\ size \in Nat /\ size + Capacity < Word
  BY VolumeAssumption
<1>2. capacity = Capacity /\ offset < Capacity
  BY <1>1 DEF PastTheEnd
<1>3. \A x \in Nat : x < Word => x % Word = x
  BY <1>1
<1>4. (offset + size) % Word = offset + size
  BY <1>1, <1>2, <1>3
<1>5. Trim(offset, size) \in Nat /\ offset + Trim(offset, size) <= Capacity
  BY <1>1, <1>2, <1>4 DEF Trim
<1>6. (offset + Trim(offset, size)) % Word = offset + Trim(offset, size)
  BY <1>1, <1>3, <1>5
<1>. QED
  BY <1>1, <1>5, <1>6 DEF OutOfRange

\* What the start of a read or of a write does to the requests.
LEMMA TransferEnters ==
    ASSUME MountTypeInv, NEW t \in Threads, NEW offset \in Offsets, NEW size \in Sizes,
           NEW call \in {"read", "write"}, NEW v \in Values \cup {None},
           call = "write" => v \in Values,
           Transfer(t, call, offset, size, v)
    PROVE  /\ request[t].call = "none"
           /\ UNCHANGED <<service, capacity, data, app, save, stored, touched, file>>
           /\ request' \in [Threads -> [call : {"none", "info"}] \cup Request]
           /\ request'[t] \in Request
           /\ request'[t].call = call /\ request'[t].done = 0 /\ request'[t].offset = offset
           /\ call = "write" =>
                 request'[t].mixed = Shared(offset, request'[t].length)
           /\ \A u \in Threads \ {t} :
                 /\ call = "read" => request'[u] = request[u]
                 /\ request[u].call # "write" => request'[u] = request[u]
                 /\ request[u].call = "write" => 
                      /\ request'[u].call = "write"
                      /\ Span(request'[u]) = Span(request[u])
                      /\ request'[u].offset = request[u].offset
                      /\ request'[u].done = request[u].done
                      /\ request'[u].value = request[u].value
                      /\ request'[u].mixed = request[u].mixed \cup
                             (IF call = "write" THEN Span(request[u]) \cap Span(request'[t]) ELSE {})
<1> DEFINE length == Trim(offset, size)
           mixed == IF call = "write" THEN Shared(offset, length) ELSE {}
           entered == [call |-> call, offset |-> offset, length |-> length, value |-> v,
                       done |-> 0, mixed |-> mixed]
<1>1. /\ offset \in Nat /\ length \in Nat /\ offset + length <= Capacity
      /\ ~OutOfRange(offset, length)
  BY TrimFits DEF MountTypeInv, Transfer
<1>2. /\ request[t] = NoRequest
      /\ UNCHANGED <<service, capacity, data, app, save, stored, touched, file>>
      /\ request' = [u \in Threads |->
              IF u = t THEN entered
              ELSE IF call = "write" /\ request[u].call = "write"
              THEN [request[u] EXCEPT !.mixed = @ \cup (Span(request[u]) \cap Span(entered))]
              ELSE request[u]]
  BY <1>1 DEF Transfer
<1>3. Span(entered) \subseteq Byte /\ Shared(offset, length) \subseteq Byte
  BY <1>1, VolumeAssumption DEF Span, Shared, Byte
<1> HIDE DEF length, mixed
<1>4. mixed \subseteq Byte /\ (call = "write" => mixed = Shared(offset, length))
  BY <1>3 DEF mixed
<1>5. entered \in Request
  BY <1>1, <1>4 DEF Request
<1>6. \A u \in Threads : request[u].call = "write" => request[u] \in Request
  BY DEF MountTypeInv
<1>7. \A u \in Threads \ {t} : request[u].call = "write" /\ call = "write" =>
          LET r == [request[u] EXCEPT !.mixed = @ \cup (Span(request[u]) \cap Span(entered))]
          IN  /\ r \in Request
              /\ r.call = "write" /\ r.offset = request[u].offset /\ r.length = request[u].length
              /\ r.done = request[u].done /\ r.value = request[u].value
              /\ r.mixed = request[u].mixed \cup (Span(request[u]) \cap Span(entered))
  BY <1>3, <1>6 DEF Request
<1>8. request'[t] = entered
  BY <1>2
<1>9. request' \in [Threads -> [call : {"none", "info"}] \cup Request]
  BY <1>2, <1>5, <1>7 DEF MountTypeInv
<1>10. request[t].call = "none"
  BY <1>2 DEF NoRequest
<1>11. ASSUME NEW u \in Threads \ {t}, request[u].call = "write"
       PROVE  /\ request'[u].call = "write"
              /\ Span(request'[u]) = Span(request[u])
              /\ request'[u].offset = request[u].offset
              /\ request'[u].done = request[u].done
              /\ request'[u].value = request[u].value
              /\ request'[u].mixed = request[u].mixed \cup
                     (IF call = "write" THEN Span(request[u]) \cap Span(request'[t]) ELSE {})
  BY <1>2, <1>7, <1>8, <1>11 DEF Span
<1>12. \A u \in Threads \ {t} :
          /\ call = "read" => request'[u] = request[u]
          /\ request[u].call # "write" => request'[u] = request[u]
  BY <1>2
<1>. QED
  BY <1>2, <1>4, <1>5, <1>8, <1>9, <1>10, <1>11, <1>12
\* A callback begins: what it has in common with others is mixed in both.
LEMMA BeginKeepsMount ==
    ASSUME MountInv, NEW t \in Threads, Begins(t)
    PROVE  MountInv'
<1>1. CASE Info(t)
  <2>1. /\ request[t].call = "none" /\ request' = [request EXCEPT ![t] = [call |-> "info"]]
        /\ UNCHANGED <<service, capacity, data, app, save, stored, touched, file>>
    BY <1>1 DEF Info, NoRequest
  <2>2. MountTypeInv'
    BY <2>1 DEF MountInv, MountTypeInv
  <2>3. request \in [Threads -> [call : {"none", "info"}] \cup Request]
    BY DEF MountInv, MountTypeInv
  <2>4. /\ request'[t].call = "info"
        /\ \A u \in Threads \ {t} : request'[u] = request[u]
    BY <2>1, <2>3
  <2>5. SaveInv'
    BY <2>1 DEF MountInv, SaveInv, SavedUnlessTouched
  <2>6. ForkInv' /\ LockInv'
    BY <2>1, <2>4, VolumeAssumption DEF MountInv, ForkInv, LockInv, Begins, Entered
  <2>7. WriteInv'
    <3>1. \A u \in Threads : Writing(u)' => Writing(u) /\ request'[u] = request[u]
      BY <2>4 DEF Writing
    <3>2. \A u \in InFlight("write") : u \in InFlight("write")' /\ request'[u] = request[u]
      BY <2>1, <2>4 DEF InFlight
    <3>3. AcknowledgedWritesStay'
      BY <2>1, <3>2 DEF MountInv, WriteInv, AcknowledgedWritesStay, Server, Span
    <3>. QED
      BY <2>1, <3>1, <3>3 DEF MountInv, WriteInv, Server, Span
  <2>. QED
    BY <2>2, <2>5, <2>6, <2>7 DEF MountInv
<1>2. ASSUME NEW offset \in Offsets, NEW size \in Sizes, NEW call \in {"read", "write"},
             NEW v \in Values \cup {None}, call = "write" => v \in Values,
             Transfer(t, call, offset, size, v)
      PROVE  MountInv'
  <2>1. MountTypeInv
    BY DEF MountInv
  <2>2. /\ request[t].call = "none"
        /\ UNCHANGED <<service, capacity, data, app, save, stored, touched, file>>
        /\ request' \in [Threads -> [call : {"none", "info"}] \cup Request]
        /\ request'[t] \in Request
        /\ request'[t].call = call /\ request'[t].done = 0 /\ request'[t].offset = offset
        /\ call = "write" => request'[t].mixed = Shared(offset, request'[t].length)
    BY <1>2, <2>1, TransferEnters
  <2>3. \A u \in Threads \ {t} :
                 /\ call = "read" => request'[u] = request[u]
                 /\ request[u].call # "write" => request'[u] = request[u]
                 /\ request[u].call = "write" =>
                      /\ request'[u].call = "write"
                      /\ Span(request'[u]) = Span(request[u])
                      /\ request'[u].offset = request[u].offset
                      /\ request'[u].done = request[u].done
                      /\ request'[u].value = request[u].value
                      /\ request'[u].mixed = request[u].mixed \cup
                             (IF call = "write" THEN Span(request[u]) \cap Span(request'[t]) ELSE {})
    BY <1>2, <2>1, TransferEnters
  <2>4. MountTypeInv' /\ SaveInv'
    BY <2>1, <2>2 DEF MountInv, MountTypeInv, SaveInv, SavedUnlessTouched
  <2>5. ForkInv'
    BY <2>2 DEF MountInv, ForkInv, Begins, Entered
  <2>6. LockInv'
    <3>1. SUFFICES ASSUME service = "dokan" PROVE LockInv'
      BY <2>2 DEF LockInv
    <3>2. \A u \in Threads : request[u].call = "none"
      BY <3>1, VolumeAssumption DEF MountInv, LockInv, Begins, Entered
    <3>3. call = "write" => request'[t].mixed = {}
      BY <2>2, <3>2 DEF Shared, InFlight
    <3>. QED
      BY <2>2, <2>3, <3>1, <3>2, <3>3 DEF LockInv, Begins, Entered
  <2>7. WriteInv'
    <3>1. ASSUME NEW u \in Threads \ {t}, request[u].call = "write", call = "write"
          PROVE  Span(request'[t]) \cap Span(request'[u]) \subseteq request'[t].mixed
      <4>1. Span(request'[t]) = offset .. offset + request'[t].length - 1
        BY <2>2 DEF Span
      <4>2. Span(request[u]) \subseteq UNION {Span(request[w]) : w \in InFlight("write")}
        BY <3>1 DEF InFlight
      <4>. QED
        BY <2>2, <2>3, <3>1, <4>1, <4>2 DEF Shared
    <3>2. \A u, w \in Threads :
             u # w /\ Writing(u)' /\ Writing(w)' =>
                 Span(request'[u]) \cap Span(request'[w]) \subseteq request'[u].mixed
      <4>1. ASSUME NEW u \in Threads, NEW w \in Threads, u # w, Writing(u)', Writing(w)'
            PROVE  Span(request'[u]) \cap Span(request'[w]) \subseteq request'[u].mixed
        <5>1. CASE u = t
          <6>1. request[w].call = "write" /\ call = "write"
            BY <2>2, <2>3, <4>1, <5>1 DEF Writing
          <6>. QED
            BY <3>1, <4>1, <5>1, <6>1
        <5>2. CASE w = t
          <6>1. request[u].call = "write" /\ call = "write"
            BY <2>2, <2>3, <4>1, <5>2 DEF Writing
          <6>. QED
            BY <2>3, <4>1, <5>2, <6>1
        <5>3. CASE u # t /\ w # t
          <6>1. request[u].call = "write" /\ request[w].call = "write"
            BY <2>3, <4>1, <5>3 DEF Writing
          <6>2. Span(request[u]) \cap Span(request[w]) \subseteq request[u].mixed
            BY <4>1, <6>1 DEF MountInv, WriteInv, Writing
          <6>. QED
            BY <2>3, <4>1, <5>3, <6>1, <6>2
        <5>. QED
          BY <5>1, <5>2, <5>3
      <4>. QED
        BY <4>1
    <3>3. ASSUME NEW u \in Threads, Writing(u)', NEW i \in Span(request'[u]) \ request'[u].mixed,
                 i < request'[u].offset + request'[u].done
          PROVE  data'[Server'][i] = request'[u].value
      <4>1. u # t
        BY <2>2, <3>3 DEF Span, Request
      <4>2. request[u].call = "write" /\ i \in Span(request[u]) \ request[u].mixed
        BY <2>3, <3>3, <4>1 DEF Writing
      <4>3. data[Server][i] = request[u].value
        BY <2>3, <3>3, <4>1, <4>2 DEF MountInv, WriteInv, Writing
      <4>. QED
        BY <2>2, <2>3, <4>1, <4>2, <4>3 DEF Server
    <3>4. AcknowledgedWritesStay'
      <4>1. \A u \in InFlight("write") :
                u \in InFlight("write")' /\ Span(request'[u]) = Span(request[u])
        BY <2>2, <2>3 DEF InFlight
      <4>2. InFlight("write") \subseteq Threads
        BY DEF InFlight
      <4>. QED
        BY <2>2, <4>1, <4>2 DEF MountInv, WriteInv, AcknowledgedWritesStay, Server
    <3>. QED
      BY <3>2, <3>3, <3>4 DEF WriteInv
  <2>. QED
    BY <2>4, <2>5, <2>6, <2>7 DEF MountInv
<1>. QED
  BY <1>1, <1>2 DEF Begins

\* memcpy writes one more byte, of the process that serves.
LEMMA CopyKeepsMount ==
    ASSUME MountInv, NEW t \in Threads, Copy(t), UNCHANGED <<fuseVars, dokanVars>>
    PROVE  MountInv'
<1> DEFINE i == request[t].offset + request[t].done
<1>1. /\ request[t].call = "write" /\ request[t].done < request[t].length
      /\ request' = [request EXCEPT ![t].done = @ + 1]
      /\ data' = [data EXCEPT ![Server][i] = request[t].value]
      /\ touched' = IF Server = "app" THEN touched \cup {i} ELSE touched
      /\ UNCHANGED <<service, capacity, app, save, stored, file, child, mutex>>
  BY DEF Copy, fuseVars, dokanVars
<1>2. /\ request \in [Threads -> [call : {"none", "info"}] \cup Request]
      /\ data \in [{"app", "child"} -> [Byte -> Values]]
      /\ Server \in {"app", "child"}
      /\ request[t] \in Request
  BY <1>1 DEF MountInv, MountTypeInv, Server
<1>3. i \in Byte /\ request[t].value \in Values /\ i \in Span(request[t])
  BY <1>1, <1>2, VolumeAssumption DEF Request, Byte, Span
<1>4. /\ request'[t] = [request[t] EXCEPT !.done = @ + 1]
      /\ request'[t] \in Request
      /\ request'[t].call = "write" /\ request'[t].done = request[t].done + 1
      /\ request'[t].mixed = request[t].mixed /\ request'[t].value = request[t].value
      /\ request'[t].offset = request[t].offset /\ Span(request'[t]) = Span(request[t])
      /\ \A u \in Threads \ {t} : request'[u] = request[u]
  BY <1>1, <1>2 DEF Request, Span
<1> HIDE DEF i
<1>5. MountTypeInv'
  BY <1>1, <1>2, <1>3, <1>4 DEF MountInv, MountTypeInv
<1>6. /\ data'[Server][i] = request[t].value
      /\ \A j \in Byte \ {i} : data'[Server][j] = data[Server][j]
      /\ \A p \in {"app", "child"} \ {Server} : data'[p] = data[p]
  BY <1>1, <1>2, <1>3
<1>7. \A j \in Byte \ touched' : j \notin touched /\ data'["app"][j] = data["app"][j]
  BY <1>1, <1>2, <1>6
<1>8. SaveInv'
  BY <1>1, <1>7 DEF MountInv, SaveInv, SavedUnlessTouched
<1>9. ForkInv'
  <2>1. service = "fuse" => data'["app"] = data["app"] /\ touched' = touched
    BY <1>1, <1>6 DEF Server
  <2>2. service = "fuse" => app \notin {"loaded", "ready"}
    BY <1>1 DEF MountInv, ForkInv
  <2>. QED
    BY <1>1, <2>1, <2>2 DEF MountInv, ForkInv
<1>10. LockInv'
  BY <1>1, <1>4 DEF MountInv, LockInv
<1>11. \A u, w \in Threads :
          u # w /\ Writing(u)' /\ Writing(w)' =>
              Span(request'[u]) \cap Span(request'[w]) \subseteq request'[u].mixed
  <2>1. \A u \in Threads : /\ Writing(u)' = Writing(u)
                           /\ Span(request'[u]) = Span(request[u])
                           /\ request'[u].mixed = request[u].mixed
    BY <1>1, <1>4 DEF Writing
  <2>. QED
    BY <2>1 DEF MountInv, WriteInv
<1>12. ASSUME NEW u \in Threads, Writing(u)', NEW j \in Span(request'[u]) \ request'[u].mixed,
              j < request'[u].offset + request'[u].done
       PROVE  data'[Server'][j] = request'[u].value
  <2>1. Server' = Server
    BY <1>1 DEF Server
  <2>2. /\ Writing(u) /\ Span(request'[u]) = Span(request[u]) /\ request'[u].value = request[u].value
        /\ request'[u].mixed = request[u].mixed /\ request'[u].offset = request[u].offset
    BY <1>1, <1>4, <1>12 DEF Writing
  <2>3. request[u] \in Request
    BY <1>2, <2>2 DEF Writing
  <2>4. j \in Byte /\ j \in Int
    <3>1. j \in Span(request[u])
      BY <1>12, <2>2
    <3>2. /\ request[u].offset \in Nat /\ request[u].length \in Nat
          /\ request[u].offset + request[u].length <= Capacity /\ Capacity \in Nat
      BY <2>3, VolumeAssumption DEF Request
    <3>. QED
      BY <3>1, <3>2 DEF Span, Byte
  <2>5. CASE j = i /\ u = t
    BY <1>4, <1>6, <2>1, <2>5
  <2>6. CASE j = i /\ u # t
    BY <1>1, <1>3, <1>12, <2>2, <2>6 DEF MountInv, WriteInv, Writing
  <2>7. CASE j # i
    <3>1. j < request[u].offset + request[u].done
      BY <1>2, <1>4, <1>12, <2>2, <2>3, <2>4, <2>7 DEF i, Request
    <3>2. data[Server][j] = request[u].value
      BY <1>12, <2>2, <3>1 DEF MountInv, WriteInv
    <3>. QED
      BY <1>6, <2>1, <2>2, <2>4, <2>7, <3>2
  <2>. QED
    BY <2>5, <2>6, <2>7
<1>13. AcknowledgedWritesStay'
  <2>1. InFlight("write")' = InFlight("write") /\ t \in InFlight("write")
    BY <1>1, <1>4 DEF InFlight
  <2>2. \A u \in Threads : Span(request'[u]) = Span(request[u])
    BY <1>4
  <2>3. InFlight("write") \subseteq Threads /\ Server' = Server
    BY <1>1 DEF InFlight, Server
  <2>4. \A j \in Byte : \/ j \in Span(request[t])
                        \/ data'[Server][j] = data[Server][j]
    BY <1>3, <1>6
  <2>. QED
    BY <1>1, <2>1, <2>2, <2>3, <2>4 DEF MountInv, WriteInv, AcknowledgedWritesStay
<1>. QED
  BY <1>5, <1>8, <1>9, <1>10, <1>11, <1>12, <1>13 DEF MountInv, WriteInv

\* A callback ends: what it wrote is acknowledged, and is there.
LEMMA EndKeepsMount ==
    ASSUME MountInv, NEW t \in Threads, Ends(t)
    PROVE  MountInv'
<1>1. /\ Complete(t)
      /\ request' = [request EXCEPT ![t] = NoRequest]
      /\ UNCHANGED <<service, capacity, data, app, save, stored, touched, child>>
      /\ \/ service = "fuse" /\ UNCHANGED mutex
         \/ service = "dokan" /\ mutex' = None
  BY DEF Ends, Return
<1>2. request \in [Threads -> [call : {"none", "info"}] \cup Request]
  BY DEF MountInv, MountTypeInv
<1>3. /\ request'[t].call = "none"
      /\ \A u \in Threads \ {t} : request'[u] = request[u]
      /\ request' \in [Threads -> [call : {"none", "info"}] \cup Request]
  BY <1>1, <1>2 DEF NoRequest
<1>4. \A i \in Byte :
          file'[i] = IF request[t].call = "write" /\ i \in request[t].mixed THEN None
                     ELSE IF request[t].call = "write" /\ i \in Span(request[t])
                     THEN request[t].value ELSE file[i]
  BY DEF Ends, Return
<1>5. file' \in [Byte -> Values \cup {None}]
  <2>1. CASE request[t].call = "write"
    <3>1. request[t].value \in Values
      BY <1>2, <2>1 DEF Request
    <3>. QED
      BY <2>1, <3>1 DEF MountInv, MountTypeInv, Ends, Return
  <2>2. CASE request[t].call # "write"
    BY <2>2 DEF MountInv, MountTypeInv, Ends, Return
  <2>. QED
    BY <2>1, <2>2
<1>6. MountTypeInv' /\ SaveInv'
  BY <1>1, <1>3, <1>5 DEF MountInv, MountTypeInv, SaveInv, SavedUnlessTouched
<1>7. ForkInv'
  BY <1>1, <1>3 DEF MountInv, ForkInv
<1>8. LockInv'
  <2>1. service = "dokan" => \A u \in Threads \ {t} : request[u].call = "none"
    BY <1>1, VolumeAssumption DEF MountInv, LockInv, Complete
  <2>. QED
    BY <1>1, <1>3, <2>1 DEF LockInv
<1>9. AcknowledgedWritesStay'
  <2>1. SUFFICES ASSUME ~(service = "dokan" /\ app = "exited"), NEW i \in Byte,
                        \A u \in InFlight("write")' : i \notin Span(request'[u])
                 PROVE  file'[i] = data[Server][i] \/ (file'[i] = None /\ service = "fuse")
    BY <1>1 DEF AcknowledgedWritesStay, Server
  <2>2. \A u \in InFlight("write") \ {t} : i \notin Span(request[u])
    BY <1>3, <2>1 DEF InFlight
  <2>3. CASE request[t].call = "write" /\ i \in request[t].mixed
    BY <1>1, <1>4, <2>3 DEF MountInv, LockInv
  <2>4. CASE request[t].call = "write" /\ i \in Span(request[t]) /\ i \notin request[t].mixed
    <3>1. request[t] \in Request /\ request[t].done = request[t].length
      BY <1>1, <1>2, <2>4 DEF Complete
    <3>2. i < request[t].offset + request[t].done
      BY <2>4, <3>1 DEF Span, Request
    <3>3. data[Server][i] = request[t].value
      BY <2>4, <3>2 DEF MountInv, WriteInv, Writing
    <3>. QED
      BY <1>4, <2>4, <3>3
  <2>5. CASE request[t].call # "write" \/ (i \notin Span(request[t]) /\ i \notin request[t].mixed)
    <3>1. file'[i] = file[i]
      BY <1>4, <2>5
    <3>2. \A u \in InFlight("write") : i \in Span(request[u]) => u = t /\ request[t].call = "write"
      BY <2>2 DEF InFlight
    <3>. QED
      BY <2>1, <2>5, <3>1, <3>2 DEF MountInv, WriteInv, AcknowledgedWritesStay
  <2>. QED
    BY <2>3, <2>4, <2>5
<1>10. WriteInv'
  <2>1. \A u \in Threads : Writing(u)' => Writing(u) /\ request'[u] = request[u]
    BY <1>3 DEF Writing
  <2>. QED
    BY <1>1, <1>9, <2>1 DEF MountInv, WriteInv, Server, Span
<1>. QED
  BY <1>6, <1>7, <1>8, <1>10 DEF MountInv

\* A Save goes on: what it reads is what the application holds now.
LEMMA SaveKeepsMount ==
    ASSUME MountInv, SaveBegin \/ SaveStep, UNCHANGED <<fuseVars, dokanVars>>
    PROVE  MountInv'
<1>1. /\ UNCHANGED <<service, capacity, data, app, request, file, child, mutex>>
      /\ touched' \in {{}, touched}
  BY DEF SaveBegin, SaveStep, SaveHash, SaveByte, SaveEnd, fuseVars, dokanVars
<1>2. LockInv' /\ WriteInv'
  BY <1>1 DEF MountInv, LockInv, WriteInv, Writing, AcknowledgedWritesStay, InFlight, Span, Server
<1>3. /\ data["app"] \in [Byte -> Values] /\ touched \subseteq Byte
      /\ save \in [st : {"none", "hash", "tasks"}, sum : Seq(Values), left : SUBSET Byte]
      /\ stored \in [bytes : [Byte -> Values], sum : [Byte -> Values]]
      /\ Capacity \in Nat \ {0}
  BY VolumeAssumption DEF MountInv, MountTypeInv
<1>4. ASSUME /\ save' \in [st : {"none", "hash", "tasks"}, sum : Seq(Values), left : SUBSET Byte]
             /\ stored' \in [bytes : [Byte -> Values], sum : [Byte -> Values]]
      PROVE  MountTypeInv'
  BY <1>1, <1>3, <1>4 DEF MountInv, MountTypeInv
<1>5. CASE SaveBegin
  <2>1. /\ save = NoSave /\ save' = [st |-> "hash", sum |-> <<>>, left |-> {}]
        /\ touched' = {} /\ stored' = stored
    BY <1>5 DEF SaveBegin, NoSave
  <2>2. MountTypeInv'
    BY <1>3, <1>4, <2>1
  <2>3. SaveInv'
    BY <1>3, <2>1 DEF SaveInv, SavedUnlessTouched, NoSave, Byte
  <2>4. ForkInv'
    BY <1>1, <2>1 DEF MountInv, ForkInv
  <2>. QED
    BY <1>2, <2>2, <2>3, <2>4 DEF MountInv
<1>6. CASE SaveHash
  <2> DEFINE n == Len(save.sum)
             sum == Append(save.sum, data["app"][n])
  <2>1. /\ save.st = "hash"
        /\ save' = [st |-> IF Len(sum) = Capacity THEN "tasks" ELSE "hash", sum |-> sum,
                    left |-> IF Len(sum) = Capacity THEN Byte ELSE {}]
        /\ UNCHANGED <<stored, touched>>
    BY <1>6 DEF SaveHash
  <2>2. n \in Byte /\ n \in Nat /\ n < Capacity
    BY <1>3, <2>1 DEF MountInv, SaveInv, Byte
  <2>3. /\ sum \in Seq(Values) /\ Len(sum) = n + 1 /\ sum[n+1] = data["app"][n]
        /\ \A j \in 1..n : sum[j] = save.sum[j]
    BY <1>3, <2>2
  <2> HIDE DEF sum
  <2>4. MountTypeInv'
    BY <1>3, <1>4, <2>1, <2>3
  <2>5. ASSUME NEW j \in Byte \ touched, j < n + 1
        PROVE  sum[j+1] = data["app"][j]
    <3>1. CASE j < n
      <4>1. j + 1 \in 1..n
        BY <2>2, <3>1 DEF Byte
      <4>2. save.sum[j+1] = data["app"][j]
        BY <2>5, <3>1 DEF MountInv, SaveInv
      <4>. QED
        BY <2>3, <4>1, <4>2
    <3>2. CASE j = n
      BY <2>3, <3>2
    <3>. QED
      BY <2>2, <2>5, <3>1, <3>2 DEF Byte
  <2>6. SaveInv'
    <3>1. /\ save'.st = "hash" => Len(save'.sum) < Capacity
          /\ save'.st = "tasks" => Len(save'.sum) = Capacity
      <4>1. Len(sum) <= Capacity /\ Len(sum) \in Nat /\ Capacity \in Nat
        BY <1>3, <2>2, <2>3
      <4>2. save'.sum = sum /\ save'.st = IF Len(sum) = Capacity THEN "tasks" ELSE "hash"
        BY <2>1
      <4>. QED
        BY <4>1, <4>2
    <3>2. \A j \in Byte \ touched' : j < Len(save'.sum) => save'.sum[j+1] = data'["app"][j]
      BY <1>1, <2>1, <2>3, <2>5
    <3>3. save'.st = "tasks" => save'.left = Byte
      BY <2>1
    <3>4. SavedUnlessTouched'
      BY <2>1 DEF SavedUnlessTouched, NoSave
    <3>. QED
      BY <3>1, <3>2, <3>3, <3>4 DEF SaveInv
  <2>7. ForkInv'
    BY <1>1, <2>1 DEF MountInv, ForkInv
  <2>. QED
    BY <1>2, <2>4, <2>6, <2>7 DEF MountInv
<1>7. ASSUME NEW i \in Byte, SaveByte(i)
      PROVE  MountInv'
  <2>1. /\ save.st = "tasks" /\ save' = [save EXCEPT !.left = @ \ {i}]
        /\ stored' = [stored EXCEPT !.bytes[i] = data["app"][i]]
        /\ touched' = touched
    BY <1>7 DEF SaveByte
  <2>2. /\ stored' \in [bytes : [Byte -> Values], sum : [Byte -> Values]]
        /\ stored'.sum = stored.sum
        /\ stored'.bytes = [stored.bytes EXCEPT ![i] = data["app"][i]]
    BY <1>3, <2>1
  <2>3. /\ save' \in [st : {"none", "hash", "tasks"}, sum : Seq(Values), left : SUBSET Byte]
        /\ save'.st = "tasks" /\ save'.sum = save.sum /\ save'.left = save.left \ {i}
    BY <1>3, <2>1
  <2>4. MountTypeInv'
    BY <1>4, <2>2, <2>3
  <2>5. SaveInv'
    <3>1. SavedUnlessTouched'
      BY <2>3 DEF SavedUnlessTouched, NoSave
    <3>2. \A j \in Byte \ touched' : j \notin save'.left => stored'.bytes[j] = data'["app"][j]
      BY <1>1, <1>3, <2>1, <2>2, <2>3 DEF MountInv, SaveInv
    <3>. QED
      BY <1>1, <2>1, <2>3, <3>1, <3>2 DEF MountInv, SaveInv
  <2>6. ForkInv'
    <3>1. service = "fuse" => stored'.bytes = stored.bytes
      BY <1>3, <2>2 DEF MountInv, ForkInv
    <3>. QED
      BY <1>1, <2>1, <2>2, <3>1 DEF MountInv, ForkInv
  <2>. QED
    BY <1>2, <2>4, <2>5, <2>6 DEF MountInv
<1>8. CASE SaveEnd
  <2>1. /\ save.st = "tasks" /\ save.left = {} /\ save' = NoSave
        /\ stored' = [stored EXCEPT !.sum = [i \in Byte |-> save.sum[i+1]]]
        /\ touched' = touched
    BY <1>8 DEF SaveEnd
  <2>2. Len(save.sum) = Capacity /\ \A i \in Byte : save.sum[i+1] \in Values /\ i < Capacity
    <3>1. Len(save.sum) = Capacity
      BY <2>1 DEF MountInv, SaveInv
    <3>2. \A i \in Byte : i + 1 \in 1..Capacity /\ i < Capacity
      BY <1>3 DEF Byte
    <3>. QED
      BY <1>3, <3>1, <3>2
  <2>3. /\ stored'.bytes = stored.bytes /\ stored'.sum = [i \in Byte |-> save.sum[i+1]]
        /\ stored' \in [bytes : [Byte -> Values], sum : [Byte -> Values]]
    BY <1>3, <2>1, <2>2
  <2>4. MountTypeInv'
    BY <1>4, <2>1, <2>3 DEF NoSave
  <2>5. \A i \in Byte \ touched : /\ stored'.bytes[i] = data["app"][i]
                                  /\ stored'.sum[i] = data["app"][i]
    BY <2>1, <2>2, <2>3 DEF MountInv, SaveInv
  <2>6. SaveInv'
    <3>1. save'.st = "none" /\ Len(save'.sum) = 0 /\ \A i \in Byte : ~(i < 0)
      BY <1>3, <2>1 DEF NoSave, Byte
    <3>2. SavedUnlessTouched'
      BY <1>1, <2>1, <2>5 DEF SavedUnlessTouched
    <3>. QED
      BY <3>1, <3>2 DEF SaveInv
  <2>7. ForkInv'
    <3>1. service = "fuse" => stored'.sum = data["app"]
      <4>1. SUFFICES ASSUME service = "fuse" PROVE stored'.sum = data["app"]
        OBVIOUS
      <4>2. touched = {}
        BY <4>1 DEF MountInv, ForkInv
      <4>3. \A i \in Byte : stored'.sum[i] = data["app"][i]
        BY <2>5, <4>2
      <4>4. stored'.sum \in [Byte -> Values] /\ data["app"] \in [Byte -> Values]
        BY <1>3, <2>3
      <4>. QED
        BY <4>3, <4>4
    <3>. QED
      BY <1>1, <2>1, <2>3, <3>1 DEF MountInv, ForkInv
  <2>. QED
    BY <1>2, <2>4, <2>6, <2>7 DEF MountInv
<1>. QED
  BY <1>5, <1>6, <1>7, <1>8 DEF SaveStep

-----------------------------------------------------------------------------
(* The theorems.                                                           *)

\* Every step keeps the invariant.
LEMMA MountInvNext == MountInv /\ [Next]_vars => MountInv'
BY StepClasses, QuietKeepsMount, ExitKeepsMount, BeginKeepsMount, CopyKeepsMount,
   EndKeepsMount, SaveKeepsMount

\* The invariant of the mounted volume, at every step of the service, of the
\* application and of its Save.
THEOREM MountInvariant == Spec => []MountInv
<1>1. Init => MountInv
  BY MountInvInit
<1>2. MountInv /\ [Next]_vars => MountInv'
  BY MountInvNext
<1>. QED
  BY <1>1, <1>2, PTL DEF Spec

\* The checks of the callbacks and those of VirtualStorage agree, for every
\* offset of the word: no callback throws.
THEOREM CallbacksNeverThrow == Spec => []NoCallbackThrows
<1>1. MountInv => NoCallbackThrows
  BY DEF MountInv, MountTypeInv, NoCallbackThrows, Request
<1>. QED
  BY <1>1, MountInvariant, PTL

\* The mounted file holds every acknowledged write, for any number of
\* callbacks at once.
THEOREM WritesStay == Spec => []AcknowledgedWritesStay
<1>1. MountInv => AcknowledgedWritesStay
  BY DEF MountInv, WriteInv
<1>. QED
  BY <1>1, MountInvariant, PTL

\* A Save beside the callbacks misses only the bytes that are written
\* after it began.
THEOREM SaveMissesOnlyTouched == Spec => []SavedUnlessTouched
<1>1. MountInv => SavedUnlessTouched
  BY DEF MountInv, SaveInv
<1>. QED
  BY <1>1, MountInvariant, PTL

\* With FUSE, no step ever changes what the pictures hold.
THEOREM FuseStoresNothing == Spec => FuseSavesNothingNew
<1>1. MountInv /\ MountInv' /\ [Next]_vars => [service = "fuse" => stored' = stored]_vars
  <2> SUFFICES ASSUME MountInv, MountInv', [Next]_vars, service = "fuse"
               PROVE  stored' = stored
    OBVIOUS
  <2>1. stored' # stored => SaveStep
    BY StepClasses DEF Quiet, Begins, Info, Transfer, Copy, Ends, Return, SaveBegin, DokanExit
  <2>2. CASE SaveStep
    <3>1. service' = "fuse" /\ data' = data
      BY <2>2 DEF SaveStep, SaveHash, SaveByte, SaveEnd
    <3>2. stored'.bytes = stored.bytes /\ stored'.sum = stored.sum
      BY <3>1 DEF MountInv, ForkInv
    <3>3. /\ stored \in [bytes : [Byte -> Values], sum : [Byte -> Values]]
          /\ stored' \in [bytes : [Byte -> Values], sum : [Byte -> Values]]
      BY DEF MountInv, MountTypeInv
    <3>. QED
      BY <3>2, <3>3
  <2>. QED
    BY <2>1, <2>2
<1>. QED
  BY <1>1, MountInvariant, PTL DEF Spec, FuseSavesNothingNew
===============================================================================
