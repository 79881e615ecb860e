\* stop_actor() while on_start() runs on the creator's thread.
CONSTANTS
    a1 = a1
    a2 = a2
    w1 = w1
    k1 = k1
    Actors = {a1, a2}
    Workers = {w1}
    Clients = {c1}
    Creators = {k1}
    Pin <- MCPin
    NewActor <- MCNewActor
    Busy = {}
    Budget = 1
    MaxSend = 1
    Senders = {c1}
    Stoppers = {c1}
SPECIFICATION Spec
PROPERTIES StopCompletes
CHECK_DEADLOCK FALSE
