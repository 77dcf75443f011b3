CONSTANTS
    Signed <- MCSigned
    Header <- MCHeader
    Bootable <- MCBootable
    Chunk = {"x", "y"}
    MaxChunks = 3
    PageChunks = 2
    Erased = Erased
    Junk = Junk
SPECIFICATION Spec
INVARIANTS
    OnlyFloorBoots
    ProtocolHolds
    CommittedHolds
PROPERTIES
    FloorHolds
