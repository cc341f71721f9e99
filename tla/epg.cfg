SPECIFICATION MCSpec
CONSTANTS
    c1 = c1
    s1 = s1
    Channels = {c1}
    Services = {s1}
    ChannelOf <- MCChannelOf
    MaxDays = 3
    Jobs = {"scan", "sync", "update"}
    MailSize = 2
    MaxDay = 3
    MaxCrashes = 1
INVARIANT SubscribersKnowPrograms
PROPERTY FeedsBringTheDays
CHECK_DEADLOCK FALSE
