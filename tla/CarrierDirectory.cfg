SPECIFICATION Spec
CONSTANTS
    b = b
    c = c
    d = d
    x = x
    r = r
    t = t
    File = {b, c, d, x, r, t}
    Stem <- MCStem
    Type <- MCType
    Capacity <- MCCapacity
    Roomless = {r}
    Broken = {x}
    Requests <- MCRequests
    EnumCalls <- MCEnumCalls
    Passwords = {"p1"}
    Filters = {{}, {"jpg"}}
    Respelled = {d}
    Moved = {c, x}
    MaxRequests = 2
    MaxSaves = 1
    None = None
INVARIANT
    OpenedIsWhole
PROPERTIES
    UntiedFilesAreFound
