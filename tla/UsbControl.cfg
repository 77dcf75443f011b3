SPECIFICATION Spec
CONSTANTS
    MaxPacket = 2
    Descriptor = {1, 2, 4, 5}
    Requested = {0, 2, 4, 6}
    Address = {0, 3, 4}
    MaxTransfers = 4
INVARIANTS
    DataStageHolds
    AcknowledgedApplied
PROPERTIES
    TransferEnds
CHECK_DEADLOCK FALSE
