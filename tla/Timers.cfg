\* Two timers, three moments, one restart.
CONSTANTS
    MaxTimers = 2
    MaxTime = 2
    Delays = {1, 2}
    PruneAt = 1
    MaxStarts = 2
SPECIFICATION Spec
INVARIANTS NoTimerLeft NoOversleep OnSchedule
PROPERTIES CancelIsFinal DueFires StopEnds
CHECK_DEADLOCK FALSE
