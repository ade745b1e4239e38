SPECIFICATION Spec
CONSTANTS
    Payload = {p1, p2}
    Garbled = {p2}
    Window = 1
    MaxSecond = 4
    MaxCalls = 3
CHECK_DEADLOCK FALSE
INVARIANTS
    ListenersExpire
    ReportedResultsAreTrue
    ExpiriesAreFinal
PROPERTY
    ListenersAnswered
