SPECIFICATION MCSpec
CONSTANTS
    NumChunks = 4
    NumReserves = 1
    ChunkSize = 2
    MaxLag = 1
    MailSize = 1
    MaxTime = 13
    MaxFaults = 1
    GapCases = {TRUE, FALSE}
    ReadSize = 3
    MaxOps = 4
    UserComes = 10
    FaultyTime = 10
INVARIANTS RecordsAreReadable RestartsRecover SubscribersAreToldState
PROPERTIES RecordingResumes ReadsReturnTheRecord
CHECK_DEADLOCK FALSE
