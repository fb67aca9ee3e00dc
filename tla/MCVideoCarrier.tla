--------------------------- MODULE MCVideoCarrier ---------------------------
(***************************************************************************)
(* Files of three packets, the second being any: video with a pts of 0 to  *)
(* 3 ahead of an even or odd dts, audio, another stream; and some longer   *)
(* files.  Two packets make a "byte".                                      *)
(***************************************************************************)
EXTENDS VideoCarrier

Video(d, gap) == [type |-> "video", dts |-> d, pts |-> d + gap, data |-> TRUE]
Audio(d) == [type |-> "audio", dts |-> d, pts |-> d, data |-> TRUE]
Other(d) == [type |-> "other", dts |-> d, pts |-> d, data |-> TRUE]

PacketsAt(d) ==
    {Video(d + odd, gap) : odd \in 0..1, gap \in 0..3}
    \cup {Audio(d + odd) : odd \in 0..1} \cup {Other(d)}

ShortFiles ==
    {<<p, q, r>> : p \in {Video(0, 0), Video(1, 1), Video(1, 2), Video(0, 3), Audio(0), Other(0)},
                   q \in PacketsAt(4),
                   r \in {Video(8, 0), Video(9, 2), Audio(9)}}

LongFiles ==
    { <<Video(0, 0), Audio(1), Video(4, 0), Audio(5), Video(8, 0)>>,
      <<Video(0, 4), Audio(1), Video(5, 2), Other(5), Audio(7), Video(9, 3)>>,
      <<Audio(0), Video(1, 2), Other(2), Video(5, 0), Video(9, 2)>>,
      <<Other(0), Video(0, 1), Audio(4), Audio(8), Video(5, 0)>> }

\* Every content of a small volume; in a larger one every bit can still go up
\* and down, together with its neighbours or against them.
MCContents(n) ==
    IF n <= 2 THEN [1..n -> 0..1]
    ELSE {[i \in 1..n |-> 0], [i \in 1..n |-> 1], [i \in 1..n |-> i % 2], [i \in 1..n |-> (i + 1) % 2]}

MCContainers == ShortFiles \cup LongFiles
=============================================================================
