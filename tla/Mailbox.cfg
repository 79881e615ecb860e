\* Two producers, two pushes each on either lane, one owner, one stop_actor().
CONSTANTS
    Producers = {p1, p2}
    MaxPush = 2
SPECIFICATION Spec
INVARIANTS OneTurn CountExact ClosedAccounting
PROPERTIES ClosedIsFinal ImplementsAbs AllConsumed
CHECK_DEADLOCK FALSE
