--------------------------- MODULE MCStegoStorage ---------------------------
EXTENDS StegoStorage

CONSTANTS a, p1, conf

\* A client that gives up after an exception needs one generation of carriers,
\* one batch at a time, and the storage in use next to the one being loaded.
\* One that goes on may meet the tasks of its last call, with their carriers
\* and their storage.
MCGens == 1..(IF RetryAfterFailure THEN 2 ELSE 1)
MCBatches == 1..(IF RetryAfterFailure THEN 2 ELSE 1)
MCStores == 1..(IF RetryAfterFailure THEN 3 ELSE 2)

=============================================================================
