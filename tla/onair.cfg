\* A local, a remote and two temporal trackers, scans and faults.
SPECIFICATION Spec
CONSTANTS
    Services = {"a", "b"}
    Configs <- MCConfigs
    Streams = {"t1", "t2"}
    ServiceOf <- MCServiceOf
    Gaps = {2}
    VersionSize = 32
    MailSize = 1
    InboxSize = 2
    MaxVersion = 3
    MaxScans = 1
    MaxFaults = 1
INVARIANT SubscribersKnowTheCache
PROPERTY ProgramsOnAirAreCached
CHECK_DEADLOCK FALSE
