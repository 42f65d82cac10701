SPECIFICATION ConverterSpec
CONSTANTS
    Calls <- MCThreeCalls
    Text = Text
    Nobody = Nobody
    Habits = {}
    MaxBlocks = 5
INVARIANTS
    ConverterTypeOK
    BlocksAgree
PROPERTY WellFormed
