CONSTANTS
    TaskCount = 2
    EventBits = 1
    Lowest = 1
    Default = 1
    HalfRange = 2
    Timeouts = {0, 1}
SPECIFICATION RunFairSpec
PROPERTIES
    IdleWakesUp
    PreemptiveShare
