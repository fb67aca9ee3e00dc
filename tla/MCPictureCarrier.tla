-------------------------- MODULE MCPictureCarrier --------------------------
EXTENDS PictureCarrier

\* Samples for one block of the encoder (three for LSB), and eleven more.
Samples(e) == 8 * (IF e = 0 THEN 3 ELSE CodewordBlockSize(e)) + 11

\* A black picture, and one with a pattern longer than a codeword; one with
\* every kind of coefficient, a seventh of which take no bit.
MCPictures(e, f) ==
    IF f = "pixels"
    THEN {[s \in 1..Samples(e) |-> 0], [s \in 1..Samples(e) |-> (s * s * 7 + 3 * s) % 5]}
    ELSE {[s \in 1..((Samples(e) * 7) \div 6 + 2) |->
              IF s % 7 = 3 THEN s % 2
              ELSE IF s % 3 = 0 THEN 2 + (s % 2) ELSE -1 - ((s * s + s \div 2) % 3)]}

\* The identity, and a permutation of fewer bits, of whole bytes or not.
MCPermute(which, n) ==
    CASE which = 1 -> [i \in 0..(n - 1) |-> i]
      [] which = 2 -> [i \in 0..(n - 3) |-> (n - 3) - i]

\* One byte of the message, first, last or in between, takes these values while
\* the others keep theirs.
Probes == {1, 64, 255}

MCMessages(n) ==
    {[b \in 0..(n - 1) |-> IF b = at THEN v ELSE 165] : at \in {0, n \div 2, n - 1}, v \in Probes}

=============================================================================
