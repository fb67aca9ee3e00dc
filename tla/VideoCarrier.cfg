SPECIFICATION Spec
CONSTANTS
    Containers <- MCContainers
    Detections = {"guess", "ffprobe yes", "ffprobe no"}
    Kinds = {"mkv", "mp4"}
    ByteBits = 2
    Contents <- MCContents
    MaxRetries = 1
    NoPts = 32
    None = None
INVARIANTS
    GuessSurvives
    MuxerAccepts
    FramesSurvive
    RefusedExactly
PROPERTY
    RoundTrip
