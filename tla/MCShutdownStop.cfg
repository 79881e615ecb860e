\* stop_actor() beside shutdown() and wait_for_shutdown(): its stop may fall to its
\* own caller, to a worker that exits in the middle, or to the last loop.
CONSTANTS
    a1 = a1
    a2 = a2
    w1 = w1
    w2 = w2
    Actors = {a1, a2}
    Workers <- OneWorker
    Pin <- PinTogether
    Clients = {c1}
    Main = main
    NoThread = NoThread
    MaxSend = 1
    MaxStops = 1
    HandlerWaits = FALSE
SPECIFICATION Spec
INVARIANTS StopCarriedOut
CHECK_DEADLOCK FALSE
