\* Two workers; a handler of one stops the actor of the other, and waits.
CONSTANTS
    a1 = a1
    a2 = a2
    w1 = w1
    w2 = w2
    Actors = {a1, a2}
    Workers <- TwoWorkers
    Pin <- PinApart
    Clients = {c1}
    Main = main
    NoThread = NoThread
    MaxSend = 1
    MaxStops = 1
    HandlerWaits = TRUE
SPECIFICATION Spec
PROPERTIES ShutdownCompletes
CHECK_DEADLOCK FALSE
