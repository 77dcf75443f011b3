SPECIFICATION LiveSpec
CONSTANTS
    Sessions = {1, 2}
    Jobs = {5, 6, 9}
    Length <- MCLength
    Crc <- MCCrc
    MaxJob = 8
    MaxSequence = 3
INVARIANTS
    AcceptedMatches
    WorkerHolds
PROPERTIES
    PendingEnds
CHECK_DEADLOCK FALSE
