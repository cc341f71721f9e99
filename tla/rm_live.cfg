\* No on-air tracker and no crash, under the fairness of the timer and the recorders.
SPECIFICATION FairSpec
CONSTANTS
    p1 = p1
    p2 = p2
    TypeOf <- MCTypeOf
    Programs = {p1, p2}
    Services = {"s1", "s2"}
    ServiceOf <- MCServiceOf
    OnAir = {}
    Starts = {2, 4}
    Rebooking = FALSE
    DiskMayFail = FALSE
    Length = 1
    Prep = 1
    MaxDelay = 2
    Retain = 3
    MaxTime = 5
    MaxMail = 1
    MaxBookings = 2
    MaxRestarts = 0
INVARIANT
    ReadySchedulesAreQueued
PROPERTIES
    SchedulesAreServed
    RecordingsEnd
