\* A fast actor created while start() runs.
CONSTANTS
    f = f
    w = w
    n = n
    Actors = {f, w}
    Fast = {f}
    Pre = {w}
    Names = {n}
    OwnName <- MCOwnName
    Default = Default
    NoActor = NoActor
    Pairs <- MCPairs
    Reapers = {r1}
    Renamers = {f}
    MaxStops = 1
SPECIFICATION Spec
INVARIANT CreateSafe
CHECK_DEADLOCK FALSE
