\* One service with an on-air tracker and one without; a crash, and saves that fail.
SPECIFICATION Spec
ACTION_CONSTRAINT SavesFailEarly
CONSTANTS
    p1 = p1
    p2 = p2
    TypeOf <- MCTypeOf
    Programs = {p1, p2}
    Services = {"s1", "s2"}
    ServiceOf <- MCServiceOf
    OnAir = {"s1"}
    Starts = {2, 4}
    Rebooking = FALSE
    DiskMayFail = TRUE
    Length = 1
    Prep = 1
    MaxDelay = 2
    Retain = 2
    MaxTime = 4
    MaxMail = 1
    MaxBookings = 2
    MaxRestarts = 1
INVARIANTS
    NothingRecordsUnscheduled
    TimerServesQueue
    DequeuedSchedulesExist
    FileKnowsSchedules
PROPERTY
    FailuresAreAnnounced
