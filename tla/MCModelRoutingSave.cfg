SPECIFICATION RoutingSpec
CONSTANTS
    a = a
    c = c
    free = free
    opencode = opencode
    other = other
    op1 = op1
    op2 = op2
    listing = listing
    Startup = Startup
    None = None
    Names <- MCNames
    Home <- MCHome
    Urls <- MCUrls
    OpenCode <- opencode
    Free <- MCFree
    Orders <- MCOrders
    Forms <- MCForms
    FirstStarts <- MCFirstStarts
    Operations <- MCOperations
    Fetchers <- MCFetchers
PROPERTIES SelectionPreserved
SYMMETRY OperationSymmetry
CHECK_DEADLOCK FALSE
