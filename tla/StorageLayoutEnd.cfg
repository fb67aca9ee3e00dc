SPECIFICATION Spec
CONSTANTS
    N = 3
    DataBlock = 2
    BlockCounts = {0, 1, 2}
    MaxSize = 7
    GlobalPerms <- MCGlobalPerms
    HashLength = 1
    Jpegs = {2}
    MaxWrites = 1
    NoPerm = NoPerm
    NoData = NoData
    Uninit = Uninit
    Zero = Zero
    Payload = Payload
    Checksum = Checksum
INVARIANT
    EndOfStorageIsOk
