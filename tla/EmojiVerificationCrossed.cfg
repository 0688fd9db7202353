CONSTANTS
    v1 = v1
    v2 = v2
    f1 = f1
    Verifs = {v1, v2}
    Foreign = {}
    ForeignRoomKinds = {}
    None = None
    SendFailures = {}
SPECIFICATION Spec
INVARIANT
    ReportMeansUserConfirmed
CHECK_DEADLOCK FALSE
