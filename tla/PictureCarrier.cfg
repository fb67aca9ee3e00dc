SPECIFICATION Spec
CONSTANTS
    Encoders = {0, 3, 4, 5, 6, 7, 8}
    Formats = {"pixels", "jpeg"}
    Pictures <- MCPictures
    Keys = {1, 2}
    Permute <- MCPermute
    Messages <- MCMessages
    MaxSaves = 2
    None = None
CHECK_DEADLOCK FALSE
INVARIANTS
    SlotsStay
    SyndromeCarriesValue
PROPERTIES
    RoundTrip
    AtMostOneChange
    SilentSave
