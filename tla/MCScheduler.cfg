\* A sender and a thread that stops actors, beside a busy actor and one whose
\* on_start() is running.
CONSTANTS
    a1 = a1
    a2 = a2
    w1 = w1
    k1 = k1
    Actors = {a1, a2}
    Workers = {w1}
    Clients = {c1, c2}
    Creators = {k1}
    Pin <- MCPin
    NewActor <- MCNewActor
    Busy = {a1}
    Budget = 1
    MaxSend = 1
    Senders = {c1}
    Stoppers = {c2}
SPECIFICATION Spec
INVARIANTS OnePlace NoLostWakeup Accounted
PROPERTIES AllSettled StopServiced
CHECK_DEADLOCK FALSE
