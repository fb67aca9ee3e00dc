SPECIFICATION FairSpec
CONSTANTS
    t1 = t1
    t2 = t2
    Capacity = 2
    Word = 16
    Offsets <- MCOffsets
    Sizes = {1, 3}
    Values = {0, 1}
    Contents <- MCContents
    Threads <- MCThreads
    Services = {"fuse", "dokan"}
    None = None
INVARIANTS
    NoCallbackThrows
    AcknowledgedWritesStay
    SavedUnlessTouched
PROPERTIES
    FuseSavesNothingNew
    WaitersAreWoken
