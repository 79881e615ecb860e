\* Both kinds of actor; two messages of one type with another between them.
CONSTANTS
    c1 = c1
    c2 = c2
    c3 = c3
    NoSender = NoSender
    Kinds = {"stateful", "inline"}
    Senders = {c1, c2, c3}
    Role <- MCRole
    Script <- MCScript
    Types = {"t", "u"}
    MaxSelf = 2
SPECIFICATION Spec
INVARIANTS OnePlace
PROPERTIES SenderOrder  CallAnswered NoneForgotten
CHECK_DEADLOCK FALSE
