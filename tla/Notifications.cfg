SPECIFICATION NotificationsSpec
CONSTANTS
    Orders = {o1, o2}
    Senders = {m1, m2}
    MaxAttempts = 2
    BatchSize = 2
    ListLimit = 1
    MaxMessages = 2
    MaxFaults = 1
    MaxWork = 3
INVARIANTS
    NotificationsTypeOK
    BellFollowsTheThread
PROPERTIES
    EventsAreDecided
CHECK_DEADLOCK FALSE
