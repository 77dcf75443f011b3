CONSTANTS
    TaskCount = 2
    EventBits = 1
    Lowest = 1
    Default = 1
    HalfRange = 3
    Timeouts = {0, 1, 2}
SPECIFICATION Spec
INVARIANTS
    WakeUpsHold
    SwitchesHold
    RunEnds
PROPERTIES
    DeadlinesHold
    EventsNotDropped
