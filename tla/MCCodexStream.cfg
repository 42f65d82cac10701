SPECIFICATION CodexSpec
CONSTANTS
    Calls <- MCCalls
    Text = Text
    Nobody = Nobody
    Habits <- AllTheHabits
    MaxBlocks = 9
    Outputs <- MCOutputs
    MaxTerminals = 2
INVARIANTS
    CodexTypeOK
    OneLifecycle
    EndsWhole
    OrderlyInPlace
    StreamedAsWhole
    UsageReported
