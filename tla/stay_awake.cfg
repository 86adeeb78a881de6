SPECIFICATION AwakeSpec
CONSTANTS
    MaxAsks = 4
    Launches = 3
    Faults = 3
INVARIANTS AwakeInv
PROPERTIES SleepComesBack FollowsSession
\* Asks, launches and faults run out.
CHECK_DEADLOCK FALSE
