SPECIFICATION MCSpec
CONSTANTS
    Records = {1, 2}
    MailSize = 1
    MaxUnits = 2
    MaxFaults = 1
    Requests <- MCRequests
    QueueSize = 1
    PipeSize = 1
    MaxChunks = 1
INVARIANTS RecordingRecordsHaveRecorders ChecksumsAreOfTheContent EndMeansComplete NoWakeUpIsLost
PROPERTIES NothingOutlivesTheStream ChecksumsArrive
CHECK_DEADLOCK FALSE
