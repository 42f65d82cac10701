SPECIFICATION FairFallbackSpec
CONSTANTS
    r1 = r1
    r2 = r2
    zen = zen
    codex = codex
    big = big
    small = small
    AnyModel = "*"
    Requests <- MCOneRequest
    Callers <- MCOneRequest
    Upstreams <- MCTwoUpstreams
    Models <- MCTwoModels
    ConfiguredLists <- MCReconfigured
    PreferenceLists <- MCMixed
    Modes <- MCBothModes
    Registries <- MCRegistries
    Answers = {"invalid", "marshal", "transport", "readError", "limited", "account", "overloaded", "gone", "rejected", "ok", "plain", "garbled"}
    RetryAfters = {2, 3}
    Disturbances = {"context", "config", "router"}
    RateLimitCooldown = 1
    DiscoveredCooldown = 2
    CircuitBreakerCooldown = 3
    MaxTime = 2
    MaxRetries = 3
INVARIANTS
    FallbackTypeOK
    NothingUntried
PROPERTIES
    ServesContract
    EventuallyAnswered
