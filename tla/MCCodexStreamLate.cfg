SPECIFICATION CodexSpec
CONSTANTS
    Calls <- MCCalls
    Text = Text
    Nobody = Nobody
    Habits <- AllTheHabits
    MaxBlocks = 9
    Outputs <- MCTwoCalls
    MaxTerminals = 1
INVARIANT LateArgumentsInPlace
