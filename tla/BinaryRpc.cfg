SPECIFICATION RpcSpec
CONSTANTS
    MaxArgs = 2
    MaxArgBytes = 1
    ChunkMax = 2
    Registry <- MCRegistry
    Requests <- MCRequests
    Letters = {"a"}
    MaxOutput = 4
    MaxCalls = 2
INVARIANTS
    RunsExactlyProperCalls
    AnswersAreHonest
CHECK_DEADLOCK FALSE
