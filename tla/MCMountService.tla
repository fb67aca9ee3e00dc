--------------------------- MODULE MCMountService ---------------------------
(***************************************************************************)
(* Two bytes, two threads; arithmetic modulo 16.  The kernel asks for one  *)
(* byte or for three, at both bytes, at the end, and at the offset that is *)
(* -1 as a 64-bit number.                                                  *)
(***************************************************************************)
EXTENDS MountService

CONSTANTS t1, t2

MCThreads == {t1, t2}
MCContents == {[i \in 0..1 |-> 0]}
MCOffsets == {0, 1, 2, 15}
=============================================================================
