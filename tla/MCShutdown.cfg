\* One worker; stop_actor() calls before, during and after the shutdown.
CONSTANTS
    a1 = a1
    a2 = a2
    w1 = w1
    w2 = w2
    Actors = {a1, a2}
    Workers <- OneWorker
    Pin <- PinTogether
    Clients = {c1}
    Main = main
    NoThread = NoThread
    MaxSend = 1
    MaxStops = 2
    HandlerWaits = TRUE
SPECIFICATION Spec
INVARIANTS AllStopped EarlyTraced
PROPERTIES StopIsLast ShutdownCompletes StopReturns
CHECK_DEADLOCK FALSE
