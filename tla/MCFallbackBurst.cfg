SPECIFICATION FallbackSpec
CONSTANTS
    r1 = r1
    r2 = r2
    zen = zen
    codex = codex
    big = big
    small = small
    AnyModel = "*"
    Requests <- MCTwoRequests
    Callers <- MCTwoRequests
    Upstreams <- MCOneUpstream
    Models <- MCTwoModels
    ConfiguredLists <- MCReconfigured
    PreferenceLists <- MCSiblings
    Modes <- MCPlain
    Registries <- MCZenRegistry
    Answers = {"transport", "limited", "account", "gone", "rejected", "ok"}
    RetryAfters = {}
    Disturbances = {"reset", "config"}
    RateLimitCooldown = 1
    DiscoveredCooldown = 2
    CircuitBreakerCooldown = 3
    MaxTime = 4
    MaxRetries = 2
INVARIANTS
    BreakerTypeOK
    CooldownBound
    DiscoveredRetriedSooner
    UpstreamNeverLost
    EvidenceBacked
PROPERTIES
    NeverShortened
    CountedTakesEffect
    CascadeStopped
    UsesBreaker
SYMMETRY RequestSymmetry
