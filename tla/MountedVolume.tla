---------------------------- MODULE MountedVolume ----------------------------
(***************************************************************************)
(* A loaded volume that a file system service shows as one file, while the *)
(* application that loaded it may call Save.  FuseService.tla and          *)
(* DokanService.tla add the services; this module has what they share:     *)
(* StegoStorage::Read, Write and GetSize, their checks in VirtualStorage,  *)
(* and the part of Save that reads the storage.                            *)
(*                                                                         *)
(* memcpy goes byte by byte: nothing locks data_, so a Save and a write    *)
(* of a service interleave.  Save reads data_ twice, first for the         *)
(* checksum, then in the tasks of the pictures, which take the bytes in    *)
(* any order.  That the pictures keep what Save stores, and what a failed  *)
(* Save leaves behind, is the subject of StegoStorage.tla.                 *)
(***************************************************************************)
EXTENDS Integers, FiniteSets, Sequences

CONSTANTS
    Capacity,  \* usable_capacity_ of the loaded storage
    Word,      \* uint64 arithmetic is modulo this
    Offsets,   \* where the kernel may want to read or write
    Sizes,     \* how much: a 32-bit number, far below Word
    Values,    \* of a byte
    Contents,  \* what Load may have found in the pictures
    Threads,   \* of the library that calls the service
    None

ASSUME VolumeAssumption ==
    /\ Capacity \in Nat \ {0}
    /\ Word \in Nat /\ 2 * Capacity < Word
    /\ Offsets \subseteq 0..Word-1
    /\ Sizes \subseteq 1..Word-1 /\ \A s \in Sizes : s + Capacity < Word
    /\ None \notin Threads \cup Values

Byte == 0..Capacity-1

ASSUME ContentsAssumption == Contents \subseteq [Byte -> Values]

VARIABLES
    service,  \* "fuse" or "dokan": what the build serves the volume with
    capacity, \* the service's capacity_, read once by its Init
    data,     \* data[p]: data_ in the memory of process p, "app" or "child"
    app,      \* where the application is
    save,     \* its Save: [st, sum, left]
    stored,   \* the pictures: bytes, and the bytes their checksum is of
    request,  \* request[t]: the callback that thread t is in
    touched,  \* auxiliary: bytes of "app" written since the last Save began
    file      \* auxiliary: what the mounted file holds by what was acknowledged

volumeVars == <<service, capacity, data, app, save, stored, request, touched, file>>

\* Mutant of Server: fuse_main runs in the application.
ServerInApplication == "app"

\* FUSE serves from the child of a fork, Dokan from a thread of the application.
Server == IF service = "fuse" THEN "child" ELSE "app"

NoRequest == [call |-> "none"]
NoSave == [st |-> "none", sum |-> <<>>, left |-> {}]

VolumeInit ==
    /\ capacity = 0
    /\ file \in Contents
    /\ data = [p \in {"app", "child"} |-> file]
    /\ app = "loaded"
    /\ save = NoSave
    /\ stored = [bytes |-> file, sum |-> file]
    /\ request = [t \in Threads |-> NoRequest]
    /\ touched = {}

\* Capacity is never 0 here: the services are started after Load.
GetSize == Capacity

-----------------------------------------------------------------------------
(* A callback that reads or writes.                                        *)

\* Mutant of PastTheEnd: the offset is not looked at.
NeverPastTheEnd(offset) == FALSE

\* Both services look at the offset first and then shorten the request.
PastTheEnd(offset) == offset >= capacity
Trim(offset, size) ==
    IF (offset + size) % Word > capacity THEN capacity - offset ELSE size

\* VirtualStorage::Read and Write throw.
OutOfRange(offset, length) == (offset + length) % Word > Capacity

Span(r) == r.offset .. r.offset + r.length - 1
InFlight(call) == {t \in Threads : request[t].call = call}
Busy == {t \in Threads : request[t] # NoRequest}

\* The bytes of a new write that writes in flight write as well.
Shared(offset, length) ==
    (offset .. offset + length - 1) \cap UNION {Span(request[t]) : t \in InFlight("write")}

\* The call reaches memcpy, or an exception leaves the callback.
Transfer(t, call, offset, size, v) ==
    LET length == Trim(offset, size)
        entered == [call |-> call, offset |-> offset, length |-> length, value |-> v,
                    done |-> 0,
                    mixed |-> IF call = "write" THEN Shared(offset, length) ELSE {}]
    IN  /\ request[t] = NoRequest
        /\ ~PastTheEnd(offset)
        /\ request' = [u \in Threads |->
              IF u = t
              THEN IF OutOfRange(offset, length) THEN [call |-> "threw"] ELSE entered
              ELSE IF call = "write" /\ request[u].call = "write"
              THEN [request[u] EXCEPT !.mixed = @ \cup (Span(request[u]) \cap Span(entered))]
              ELSE request[u]]
        /\ UNCHANGED <<service, capacity, data, app, save, stored, touched, file>>

\* A callback that answers without the storage.
Info(t) ==
    /\ request[t] = NoRequest
    /\ request' = [request EXCEPT ![t] = [call |-> "info"]]
    /\ UNCHANGED <<service, capacity, data, app, save, stored, touched, file>>

\* memcpy into the storage.  What a read copies out of it is not recorded.
Copy(t) ==
    LET i == request[t].offset + request[t].done IN
    /\ request[t].call = "write"
    /\ request[t].done < request[t].length
    /\ request' = [request EXCEPT ![t].done = @ + 1]
    /\ data' = [data EXCEPT ![Server][i] = request[t].value]
    /\ touched' = IF Server = "app" THEN touched \cup {i} ELSE touched
    /\ UNCHANGED <<service, capacity, app, save, stored, file>>

Complete(t) ==
    \/ request[t].call \in {"info", "read"}
    \/ request[t].call = "write" /\ request[t].done = request[t].length

\* The callback returns.  A byte that two writes wrote at the same time holds
\* the value of one of them.
Return(t) ==
    /\ Complete(t)
    /\ request' = [request EXCEPT ![t] = NoRequest]
    /\ file' = IF request[t].call = "write"
               THEN [i \in Byte |->
                        IF i \in request[t].mixed THEN None
                        ELSE IF i \in Span(request[t]) THEN request[t].value
                        ELSE file[i]]
               ELSE file
    /\ UNCHANGED <<service, capacity, data, app, save, stored, touched>>

-----------------------------------------------------------------------------
(* Save: WriteChecksum, then the tasks of the pictures.                    *)

\* Mutant of SaveBegin: the checksum in data_ is taken to be up to date.
SaveBeginWithOldChecksum ==
    /\ app = "serving" /\ save = NoSave
    /\ save' = [st |-> "tasks", sum |-> [i \in 1..Capacity |-> stored.sum[i-1]], left |-> Byte]
    /\ touched' = {}
    /\ UNCHANGED <<service, capacity, data, app, stored, request, file>>

SaveBegin ==
    /\ app = "serving" /\ save = NoSave
    /\ save' = [NoSave EXCEPT !.st = "hash"]
    /\ touched' = {}
    /\ UNCHANGED <<service, capacity, data, app, stored, request, file>>

SaveHash ==
    LET sum == Append(save.sum, data["app"][Len(save.sum)]) IN
    /\ save.st = "hash"
    /\ save' = [st |-> IF Len(sum) = Capacity THEN "tasks" ELSE "hash",
                sum |-> sum,
                left |-> IF Len(sum) = Capacity THEN Byte ELSE {}]
    /\ UNCHANGED <<service, capacity, data, app, stored, request, touched, file>>

SaveByte(i) ==
    /\ save.st = "tasks" /\ i \in save.left
    /\ save' = [save EXCEPT !.left = @ \ {i}]
    /\ stored' = [stored EXCEPT !.bytes[i] = data["app"][i]]
    /\ UNCHANGED <<service, capacity, data, app, request, touched, file>>

SaveEnd ==
    /\ save.st = "tasks" /\ save.left = {}
    /\ save' = NoSave
    /\ stored' = [stored EXCEPT !.sum = [i \in Byte |-> save.sum[i+1]]]
    /\ UNCHANGED <<service, capacity, data, app, request, touched, file>>

SaveStep == SaveHash \/ SaveEnd \/ \E i \in Byte : SaveByte(i)
==============================================================================
