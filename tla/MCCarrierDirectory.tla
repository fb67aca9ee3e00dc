------------------------ MODULE MCCarrierDirectory --------------------------
EXTENDS CarrierDirectory

CONSTANTS b, c, d, x, r, t

\* b and c have one name in two folders; x is broken and comes later; r and t never
\* become carriers.
MCStem == (b :> 2) @@ (c :> 2) @@ (d :> 4) @@ (x :> 3) @@ (r :> 0) @@ (t :> 5)
MCType == (b :> "bmp") @@ (c :> "bmp") @@ (d :> "jpg") @@ (x :> "png") @@ (r :> "bmp") @@ (t :> "txt")

\* b is too small for a block of the Hamming code.
MCCapacity ==
    LET Bytes(lsb, hamming) == [lsb |-> lsb, hamming |-> hamming] IN
    (b :> Bytes(1, 0)) @@ (c :> Bytes(3, 1)) @@ (d :> Bytes(2, 1)) @@ (x :> Bytes(1, 1))
    @@ (r :> Bytes(0, 0)) @@ (t :> Bytes(0, 0))

\* The example of README.md, with other values where they would not show, and
\* a configuration that leaves everything but the types unfilled.
MCRequests ==
    {[encoder |-> "hamming", glob_perm |-> "affine", local_perm |-> "mix_feistel",
      file_types |-> ("jpg" :> [permutation |-> "affine", encoder |-> "lsb"]),
      exclude_types |-> {"bmp", "png"}],
     [include_types |-> {"jpg", "gif"}]}

MCEnumCalls == {<<"lsb", "affine", "identity">>}

=============================================================================
