--------------------------- MODULE CircuitBreaker ---------------------------
(***************************************************************************)
(* The circuit breaker of internal/proxy/handlers.go: which upstream/model *)
(* keys are disabled, until when and why, and how many consecutive 429     *)
(* answers each model has given.  Request goroutines, the startup probes   *)
(* and the dashboard all call it; every call below is one critical section *)
(* of disabledMu, so each is one action.  trackRateLimit is the exception: *)
(* it takes the lock twice, and a caller is between its two sections while *)
(* counted[c] # NotCounted.                                                *)
(*                                                                         *)
(* Time is a natural number of ticks, starting at 1; ZeroTime is Go's zero *)
(* time.Time.  A key is a pair <<upstream, model>>; <<upstream, AnyModel>> *)
(* is the code's "upstream/*".                                             *)
(***************************************************************************)
EXTENDS Naturals, FiniteSets

CONSTANTS
    Upstreams,              \* upstream names
    Models,                 \* model names
    AnyModel,               \* the "*" of an upstream-wide key
    Callers,                \* goroutines that may be inside trackRateLimit
    ConfiguredLists,        \* the sets of specs cfg.Models may hold
    RateLimitCooldown,      \* rateLimitCooldown (1 minute)
    DiscoveredCooldown,     \* the 5 minutes of a model that is not configured
    CircuitBreakerCooldown, \* circuitBreakerCooldown (60 minutes)
    MaxTime,                \* bound: the clock stops here
    MaxRetries              \* bound: 429 answers counted per model

Specs == Upstreams \X Models
Keys == Upstreams \X (Models \cup {AnyModel})

ZeroTime == 0
Reasons == {"rate_limit", "rate_limit_escalated", "error", "unavailable"}
NoEntry == [until |-> ZeroTime, reason |-> "none"]   \* the key is not in the map
Entries == [until : Nat, reason : Reasons \cup {"none"}]

ASSUME NamesAssumption == AnyModel \notin Models
ASSUME ConfiguredAssumption == ConfiguredLists \subseteq SUBSET Specs
ASSUME CooldownAssumption ==
    /\ {RateLimitCooldown, DiscoveredCooldown, CircuitBreakerCooldown} \subseteq Nat
    /\ 0 < RateLimitCooldown
    /\ RateLimitCooldown < DiscoveredCooldown
    /\ DiscoveredCooldown < CircuitBreakerCooldown
ASSUME BoundAssumption == MaxTime \in Nat /\ MaxRetries \in Nat

VARIABLES
    now,              \* time.Now()
    configured,       \* the specs of the published cfg.Models
    disabledUntil,    \* h.disabledUntil, NoEntry where the map has no key
    rateLimitRetries, \* h.rateLimitRetries, 0 where the map has no key
    counted           \* per caller: what trackRateLimit has counted, not yet applied

breakerVars == <<now, configured, disabledUntil, rateLimitRetries, counted>>

NotCounted == [key |-> <<"none", "none">>, retries |-> 0]
Counts == [key : Specs, retries : Nat] \cup {NotCounted}

BreakerTypeOK ==
    /\ now \in Nat \ {0}
    /\ configured \in ConfiguredLists
    /\ disabledUntil \in [Keys -> Entries]
    /\ rateLimitRetries \in [Specs -> Nat]
    /\ counted \in [Callers -> Counts]

-----------------------------------------------------------------------------
(* What the map says at this instant. *)

\* Is key in force now: permanently, or until a deadline still ahead?
Disabled(key) ==
    LET info == disabledUntil[key] IN
    \/ info.reason = "unavailable"
    \/ info.reason # "none" /\ now < info.until

RateLimited(info) == info.reason \in {"rate_limit", "rate_limit_escalated"}

\* The entry allModelsDisabledByRateLimit looks at: the model's own if there
\* is one, expired or not, and the upstream-wide one otherwise.
ReportedEntry(spec) ==
    IF disabledUntil[spec] # NoEntry
      THEN disabledUntil[spec]
      ELSE disabledUntil[<<spec[1], AnyModel>>]

AllDisabledByRateLimit(specs) ==
    /\ specs # {}
    /\ \A s \in specs : RateLimited(ReportedEntry(s))

-----------------------------------------------------------------------------
(* disableModel and its callers. *)

IsConfiguredModel(key) == key[2] = AnyModel \/ key \in configured

\* Mutant: a single 429 costs the long cooldown.
CooldownOfError(key, reason) ==
    IF reason = "error" /\ ~IsConfiguredModel(key) THEN DiscoveredCooldown
                                                   ELSE CircuitBreakerCooldown

\* Mutant: discovered models are not told apart.
CooldownOfReason(key, reason) ==
    IF reason = "rate_limit" THEN RateLimitCooldown ELSE CircuitBreakerCooldown

\* How long key stays disabled for reason ("unavailable" has no deadline).
Cooldown(key, reason) ==
    IF reason = "error" /\ ~IsConfiguredModel(key)
      THEN DiscoveredCooldown
      ELSE IF reason = "rate_limit" THEN RateLimitCooldown ELSE CircuitBreakerCooldown

\* Mutant: the last writer wins, unless the model is gone for good.
KeepsUnavailable(info, until) == info.reason = "unavailable"

\* disableModel returns early for an entry the new one must not clobber.
Keeps(info, until) ==
    \/ info.reason = "unavailable"
    \/ until # ZeroTime /\ info.until > until

DisableModel(key, reason) ==
    LET until == IF reason = "unavailable" THEN ZeroTime
                                           ELSE now + Cooldown(key, reason)
    IN  disabledUntil' = IF Keeps(disabledUntil[key], until)
                           THEN disabledUntil
                           ELSE [disabledUntil EXCEPT ![key] = [until |-> until, reason |-> reason]]

DisableModelUpstream(spec, reason) ==
    /\ DisableModel(spec, reason)
    /\ UNCHANGED <<now, configured, rateLimitRetries, counted>>

\* Mutant: an exhausted account is blacklisted like a second 429.
TrackGlobalForLong(upstream) ==
    /\ DisableModel(<<upstream, AnyModel>>, "rate_limit_escalated")
    /\ UNCHANGED <<now, configured, rateLimitRetries, counted>>

\* A usage_limit_reached 429: the whole upstream is disabled.
TrackGlobalRateLimit(upstream) ==
    /\ DisableModel(<<upstream, AnyModel>>, "rate_limit")
    /\ UNCHANGED <<now, configured, rateLimitRetries, counted>>

\* Any other 429, first critical section: count it.
CountRateLimit(c, spec) ==
    /\ counted[c] = NotCounted
    /\ LET retries == rateLimitRetries[spec] + 1 IN
       /\ rateLimitRetries' = [rateLimitRetries EXCEPT ![spec] = retries]
       /\ counted' = [counted EXCEPT ![c] = [key |-> spec, retries |-> retries]]
    /\ UNCHANGED <<now, configured, disabledUntil>>

\* Mutant: the second section reads the shared counter again instead of its
\* own count, which a success or a reset may have cleared.
DisableByCounter(c) ==
    /\ counted[c] # NotCounted
    /\ DisableModel(counted[c].key,
                    IF rateLimitRetries[counted[c].key] >= 2 THEN "rate_limit_escalated"
                                                             ELSE "rate_limit")
    /\ counted' = [counted EXCEPT ![c] = NotCounted]
    /\ UNCHANGED <<now, configured, rateLimitRetries>>

\* Mutant: the escalated disable is stored under a reason nothing knows.
DisableMisspelt(c) ==
    /\ counted[c] # NotCounted
    /\ DisableModel(counted[c].key,
                    IF counted[c].retries >= 2 THEN "rate_limited_escalated" ELSE "rate_limit")
    /\ counted' = [counted EXCEPT ![c] = NotCounted]
    /\ UNCHANGED <<now, configured, rateLimitRetries>>

\* Second critical section: disable, for long on the second 429 in a row.
DisableCounted(c) ==
    /\ counted[c] # NotCounted
    /\ DisableModel(counted[c].key,
                    IF counted[c].retries >= 2 THEN "rate_limit_escalated" ELSE "rate_limit")
    /\ counted' = [counted EXCEPT ![c] = NotCounted]
    /\ UNCHANGED <<now, configured, rateLimitRetries>>

-----------------------------------------------------------------------------
(* The other calls on the handler. *)

\* isModelDisabled: an expired entry is deleted by the check that finds it.
IsModelDisabled(key) ==
    /\ disabledUntil' = IF Disabled(key) THEN disabledUntil
                                         ELSE [disabledUntil EXCEPT ![key] = NoEntry]
    /\ UNCHANGED <<now, configured, rateLimitRetries, counted>>

ClearRateLimitRetry(spec) ==
    /\ rateLimitRetries' = [rateLimitRetries EXCEPT ![spec] = 0]
    /\ UNCHANGED <<now, configured, disabledUntil, counted>>

ResetCircuitBreakers ==
    /\ disabledUntil' = [key \in Keys |-> NoEntry]
    /\ rateLimitRetries' = [spec \in Specs |-> 0]
    /\ UNCHANGED <<now, configured, counted>>

\* UpdateConfig, ReorderModels and ApplyDiscoveredOpenCodeModels publish
\* another preference list while requests run.
PublishConfig(models) ==
    /\ configured' = models
    /\ UNCHANGED <<now, disabledUntil, rateLimitRetries, counted>>

Tick ==
    /\ now < MaxTime
    /\ now' = now + 1
    /\ UNCHANGED <<configured, disabledUntil, rateLimitRetries, counted>>

-----------------------------------------------------------------------------

BreakerInit ==
    /\ now = 1
    /\ configured \in ConfiguredLists
    /\ disabledUntil = [key \in Keys |-> NoEntry]
    /\ rateLimitRetries = [spec \in Specs |-> 0]
    /\ counted = [c \in Callers |-> NotCounted]

\* A 429 during a startup probe passes "rate_limit"; every other caller of
\* disableModelUpstream passes "error" or "unavailable".
BreakerNext ==
    \/ \E spec \in Specs, reason \in {"error", "rate_limit", "unavailable"} :
          DisableModelUpstream(spec, reason)
    \/ \E u \in Upstreams : TrackGlobalRateLimit(u)
    \/ \E c \in Callers, spec \in Specs :
          rateLimitRetries[spec] < MaxRetries /\ CountRateLimit(c, spec)
    \/ \E c \in Callers : DisableCounted(c)
    \/ \E key \in Keys : IsModelDisabled(key)
    \/ \E spec \in Specs : ClearRateLimitRetry(spec)
    \/ ResetCircuitBreakers
    \/ \E models \in ConfiguredLists : PublishConfig(models)
    \/ Tick

BreakerSpec == BreakerInit /\ [][BreakerNext]_breakerVars

-----------------------------------------------------------------------------
(* Properties *)

\* No disable outlives the cooldown of its reason, counted from now: one 429
\* costs a model at most the short cooldown (also when entries of several
\* callers overwrite one another), everything else at most the long one, and
\* only "unavailable", which has no deadline, is permanent
\* (handlers.go:102-110, 340-350).
CooldownBound ==
    \A key \in Keys :
        LET info == disabledUntil[key] IN
        /\ info.reason = "unavailable" => info.until = ZeroTime
        /\ info.reason = "rate_limit" => info.until <= now + RateLimitCooldown
        /\ info.reason \in {"error", "rate_limit_escalated"} =>
              info.until <= now + CircuitBreakerCooldown

\* A model no published preference list names is a best-effort fallback: a
\* transport error takes it away for at most DiscoveredCooldown, whatever
\* lists are published meanwhile (handlers.go:326-331).
DiscoveredRetriedSooner ==
    \A spec \in Specs \ UNION ConfiguredLists :
        disabledUntil[spec].reason = "error" =>
            disabledUntil[spec].until <= now + DiscoveredCooldown

\* A whole upstream is only ever disabled as rate limited, for the short
\* cooldown: no caller can take an upstream away for an hour or for good.
UpstreamNeverLost ==
    \A u \in Upstreams :
        LET info == disabledUntil[<<u, AnyModel>>] IN
        info.reason # "none" =>
            info.reason = "rate_limit" /\ info.until <= now + RateLimitCooldown

\* Never clobber an in-progress disable with a shorter one: while a key is
\* disabled, only ResetCircuitBreakers ends that early.  Any other step leaves
\* its deadline where it was or later, or makes it permanent; and a permanent
\* disable stays (handlers.go:340-350).
NeverShortened ==
    [][\A key \in Keys :
          Disabled(key) /\ disabledUntil' # [k \in Keys |-> NoEntry] =>
            \/ disabledUntil'[key].reason = "unavailable"
            \/ /\ disabledUntil[key].reason # "unavailable"
               /\ disabledUntil'[key].until >= disabledUntil[key].until
               /\ disabledUntil'[key].reason # "none"
      ]_breakerVars

\* A counted 429 always takes effect: once the caller leaves trackRateLimit
\* its model is disabled for at least the cooldown its count calls for, even
\* if other goroutines wrote the same entry, or a reset or a success cleared
\* the counter, between the two critical sections (handlers.go:420-434).
CountedTakesEffect ==
    [][\A c \in Callers :
          counted[c] # NotCounted /\ counted'[c] = NotCounted =>
            LET info == disabledUntil'[counted[c].key]
                wait == IF counted[c].retries >= 2 THEN CircuitBreakerCooldown
                                                   ELSE RateLimitCooldown
            IN  info.reason = "unavailable" \/ info.until >= now + wait
      ]_breakerVars

==============================================================================
