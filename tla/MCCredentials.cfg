SPECIFICATION FairCredentialsSpec
CONSTANTS
    Operations <- MCOperations
    Kinds = {"save", "reorder", "dashboardLogin", "cliLogin", "restart"}
    Refresher = Refresher
    MaxGeneration = 2
INVARIANTS
    CredentialsTypeOK
    RefreshTokenBelongs
PROPERTIES
    Settles
    LoginResolves
CHECK_DEADLOCK FALSE
