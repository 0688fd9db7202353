CONSTANTS
    v1 = v1
    v2 = v2
    f1 = f1
    Verifs = {v1}
    Foreign = {f1}
    ForeignRoomKinds = {"Request"}
    None = None
    SendFailures = {}
SPECIFICATION Spec
INVARIANT
    NoPanic
CHECK_DEADLOCK FALSE
