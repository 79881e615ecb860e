\* One slow peer and a mailbox of one: three sends are enough for one in the transport, one held and one behind it.
CONSTANTS
    Peers = {p1}
    MaxSends = 3
    Corr <- MCCorr
    Configs <- MCConfigs
    Hwm = 1
    MaxRecv = 2
    MaxIn = 1
    MaxQueue = 1
    MaxOthers = 2
    Tellers = 1
SPECIFICATION Spec
INVARIANTS SendFate PeerOrder RequestsMatched
PROPERTIES SendSettles StopServed
CHECK_DEADLOCK FALSE
