SPECIFICATION FairPipelineSpec
CONSTANTS
    Protocols = {"chat", "responses"}
    LinesCap = 1
    ChunksCap = 1
    IdleTicks = 2
    Scripts <- MCScripts
INVARIANTS
    PipelineTypeOK
    InOrder
    WholeIsComplete
    CutForReason
PROPERTIES
    RequestEnds
    EndsOrStranded
