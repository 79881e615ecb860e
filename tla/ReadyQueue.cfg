\* Four actors, two threads that push.
CONSTANTS
    Actors = {a1, a2, a3, a4}
    Pushers = {p1, p2}
    NoActor = NoActor
SPECIFICATION Spec
INVARIANTS SelfHeld
PROPERTIES ImplementsFifo AllPopped
