CONSTANTS
    v1 = v1
    v2 = v2
    f1 = f1
    Verifs = {v1}
    Foreign = {f1}
    ForeignRoomKinds = {"Request", "Key", "Mac"}
    None = None
    SendFailures = {"accept", "confirm", "cancel"}
SPECIFICATION Spec
INVARIANTS
    TypeOK
    ReportMeansUserConfirmed

    
CHECK_DEADLOCK FALSE
