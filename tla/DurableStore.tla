---------------------------- MODULE DurableStore ----------------------------
(***************************************************************************)
(* What StegoDisk promises to a client that opens, loads, writes, saves    *)
(* and may be killed at any moment: one volume, kept in the pictures.      *)
(*   - Load brings back the durable content if the key is the one it was   *)
(*     saved with; with another key, or after a torn Save, it brings back  *)
(*     something arbitrary.                                                *)
(*   - Only a Save in progress changes what is durable, and it passes from *)
(*     the old content to the new one, or to nothing, never to a mixture   *)
(*     that would still be taken for a volume.                             *)
(*   - When Save has returned, the content of the memory is durable.       *)
(***************************************************************************)
CONSTANTS Places,   \* the parts the content is made of
          Contents, \* what the memory may hold
          Keys, NoMem, Lost

VARIABLES mem,     \* content the client reads and writes, or NoMem
          memKey,  \* the key of the last Load
          durable, \* [content, key] kept in the pictures, or Lost
          before,  \* a volume that a Save may make durable again, or Lost
          attempt, \* the volume the last Save was to store, or Lost
          saving,  \* a Save is at work, or what an aborted one left running
          status   \* "ok", or "threw" after a call ended with an exception

vars == <<mem, memKey, durable, before, attempt, saving, status>>

Volume(c, k) == [content |-> c, key |-> k]

Init == /\ mem = NoMem
        /\ memKey \in Keys
        /\ durable = Lost
        /\ before = Lost
        /\ attempt = Lost
        /\ saving = FALSE
        /\ status = "ok"

\* Load begins, or the process ends: the memory is gone.
Forget == /\ mem' = NoMem
          /\ saving' = FALSE
          /\ status' = "ok"
          /\ memKey' \in Keys
          /\ UNCHANGED <<durable, before, attempt>>

Load(k) == /\ mem = NoMem /\ ~saving
           /\ mem' \in IF \E c \in Contents : durable = Volume(c, k)
                       THEN {durable.content}
                       ELSE Contents
           /\ memKey' = k
           /\ UNCHANGED <<durable, before, attempt, saving, status>>

Write(p) == /\ mem # NoMem /\ ~saving
            /\ mem' \in {c \in Contents : \A q \in Places \ {p} : c[q] = mem[q]}
            /\ UNCHANGED <<memKey, durable, before, attempt, saving, status>>

Save == /\ mem # NoMem /\ ~saving
        /\ saving' = TRUE
        /\ before' \in IF durable = Lost THEN {before, attempt, Lost} ELSE {durable}
        /\ attempt' = Volume(mem, memKey)
        /\ UNCHANGED <<mem, memKey, durable, status>>

\* A Save that starts from what another one left undone may complete that one
\* instead, where the contents agree.
Outcomes == {before, attempt, Lost}

SaveProgress == /\ saving
                /\ durable' \in Outcomes
                /\ UNCHANGED <<mem, memKey, before, attempt, saving, status>>

SaveReturn == /\ saving /\ status = "ok"
              /\ durable = Volume(mem, memKey)
              /\ saving' = FALSE
              /\ before' = Lost
              /\ attempt' = Lost
              /\ UNCHANGED <<mem, memKey, durable, status>>

\* A call throws.  What a Save has started may go on; then it ends.
Throw == /\ status' = "threw"
         /\ saving' \in {saving, FALSE}
         /\ UNCHANGED <<mem, memKey, durable, before, attempt>>

SaveAbandoned == /\ saving /\ status = "threw"
                 /\ saving' = FALSE
                 /\ durable' \in Outcomes \cup {durable}
                 /\ UNCHANGED <<mem, memKey, before, attempt, status>>

Next == \/ Forget \/ Save \/ SaveProgress \/ SaveReturn \/ Throw \/ SaveAbandoned
        \/ \E k \in Keys : Load(k)
        \/ \E p \in Places : Write(p)

Spec == Init /\ [][Next]_vars

=============================================================================
