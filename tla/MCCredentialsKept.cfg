SPECIFICATION CredentialsSpec
CONSTANTS
    Operations <- MCOperations
    Kinds = {"save", "cliLogin"}
    Refresher = Refresher
    MaxGeneration = 2
PROPERTIES
    LoginKept
CHECK_DEADLOCK FALSE
