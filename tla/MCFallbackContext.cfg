SPECIFICATION FallbackSpec
CONSTANTS
    r1 = r1
    r2 = r2
    zen = zen
    codex = codex
    big = big
    small = small
    AnyModel = "*"
    Requests <- MCOneRequest
    Callers <- MCOneRequest
    Upstreams <- MCTwoUpstreams
    Models <- MCOneModel
    ConfiguredLists <- MCFixed
    PreferenceLists <- MCPairs
    Modes <- MCPlain
    Registries <- MCFullRegistry
    Answers = {"transport", "ok"}
    RetryAfters = {}
    Disturbances = {"context"}
    RateLimitCooldown = 1
    DiscoveredCooldown = 2
    CircuitBreakerCooldown = 3
    MaxTime = 2
    MaxRetries = 2
INVARIANT ErrorsBacked
