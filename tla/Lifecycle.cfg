\* create() and stop_actor() at any time.
CONSTANTS
    f = f
    w = w
    n = n
    Actors = {f, w}
    Fast = {f}
    Pre = {}
    Names = {n}
    OwnName <- MCOwnName
    Default = Default
    NoActor = NoActor
    Pairs <- MCPairs
    Reapers = {r1}
    Renamers = {f}
    MaxStops = 1
SPECIFICATION Spec
INVARIANTS HookOrder ThreadsJoined
PROPERTIES NameKept WatcherTold ShutdownEnds
CHECK_DEADLOCK FALSE
