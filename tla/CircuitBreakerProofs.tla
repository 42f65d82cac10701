------------------------ MODULE CircuitBreakerProofs ------------------------
(***************************************************************************)
(* Theorems about CircuitBreaker, for every set of upstreams, models and   *)
(* callers and every choice of cooldowns that CooldownAssumption allows.   *)
(*                                                                         *)
(* Every action writes disabledUntil through DisableModel, deletes expired *)
(* entries or empties the map, so the proofs rest on two lemmas about      *)
(* DisableModel: the type of what it writes, and the entry it leaves.      *)
(***************************************************************************)
EXTENDS CircuitBreaker, TLAPS

\* The reasons disableModel is called with, and the keys they may be used on.
LEMMA CooldownType ==
    ASSUME NEW key, NEW reason
    PROVE  /\ Cooldown(key, reason) \in Nat \ {0}
           /\ Cooldown(key, reason) <= CircuitBreakerCooldown
           /\ reason = "rate_limit" => Cooldown(key, reason) = RateLimitCooldown
  BY CooldownAssumption DEF Cooldown

\* DisableModel keeps the map well typed.
LEMMA DisableModelType ==
    ASSUME BreakerTypeOK, NEW key \in Keys, NEW reason \in Reasons,
           DisableModel(key, reason)
    PROVE  disabledUntil' \in [Keys -> Entries]
  <1> DEFINE until == IF reason = "unavailable" THEN ZeroTime ELSE now + Cooldown(key, reason)
  <1>1. until \in Nat
    BY CooldownType DEF BreakerTypeOK, ZeroTime
  <1>2. [until |-> until, reason |-> reason] \in Entries
    BY <1>1 DEF Entries
  <1>3. QED
    BY <1>2 DEF DisableModel, BreakerTypeOK

\* The breaker's types are inductive by themselves.
LEMMA BreakerTypeStep ==
    ASSUME BreakerTypeOK, [BreakerNext]_breakerVars
    PROVE  BreakerTypeOK'
  <1>1. ASSUME NEW spec \in Specs, NEW reason \in {"error", "rate_limit", "unavailable"},
               DisableModelUpstream(spec, reason)
        PROVE  BreakerTypeOK'
    <2>1. spec \in Keys /\ reason \in Reasons
      BY DEF Specs, Keys, Reasons
    <2>2. disabledUntil' \in [Keys -> Entries]
      BY <1>1, <2>1, DisableModelType DEF DisableModelUpstream
    <2>3. QED
      BY <1>1, <2>2 DEF DisableModelUpstream, BreakerTypeOK
  <1>2. ASSUME NEW u \in Upstreams, TrackGlobalRateLimit(u)
        PROVE  BreakerTypeOK'
    <2>1. <<u, AnyModel>> \in Keys /\ "rate_limit" \in Reasons
      BY DEF Keys, Reasons
    <2>2. disabledUntil' \in [Keys -> Entries]
      BY <1>2, <2>1, DisableModelType DEF TrackGlobalRateLimit
    <2>3. QED
      BY <1>2, <2>2 DEF TrackGlobalRateLimit, BreakerTypeOK
  <1>3. ASSUME NEW c \in Callers, NEW spec \in Specs, CountRateLimit(c, spec)
        PROVE  BreakerTypeOK'
    <2>1. rateLimitRetries[spec] + 1 \in Nat
      BY DEF BreakerTypeOK
    <2>2. QED
      BY <1>3, <2>1 DEF CountRateLimit, BreakerTypeOK, Counts
  <1>4. ASSUME NEW c \in Callers, DisableCounted(c)
        PROVE  BreakerTypeOK'
    <2>1. counted[c].key \in Keys
      BY <1>4 DEF DisableCounted, BreakerTypeOK, Counts, Specs, Keys
    <2>2. disabledUntil' \in [Keys -> Entries]
      BY <1>4, <2>1, DisableModelType DEF DisableCounted, Reasons
    <2>3. QED
      BY <1>4, <2>2 DEF DisableCounted, BreakerTypeOK, Counts
  <1>5. ASSUME NEW key \in Keys, IsModelDisabled(key)
        PROVE  BreakerTypeOK'
    BY <1>5 DEF IsModelDisabled, BreakerTypeOK, NoEntry, Entries, ZeroTime
  <1>6. ASSUME NEW spec \in Specs, ClearRateLimitRetry(spec)
        PROVE  BreakerTypeOK'
    BY <1>6 DEF ClearRateLimitRetry, BreakerTypeOK
  <1>7. CASE ResetCircuitBreakers
    BY <1>7 DEF ResetCircuitBreakers, BreakerTypeOK, NoEntry, Entries, ZeroTime
  <1>8. ASSUME NEW models \in ConfiguredLists, PublishConfig(models)
        PROVE  BreakerTypeOK'
    BY <1>8 DEF PublishConfig, BreakerTypeOK
  <1>9. CASE Tick
    BY <1>9 DEF Tick, BreakerTypeOK
  <1>10. CASE UNCHANGED breakerVars
    BY <1>10 DEF breakerVars, BreakerTypeOK
  <1>11. QED
    BY <1>1, <1>2, <1>3, <1>4, <1>5, <1>6, <1>7, <1>8, <1>9, <1>10 DEF BreakerNext

\* Every state is well typed: the map holds only entries with a known reason
\* and a deadline, the counters are numbers, and a caller inside
\* trackRateLimit has counted a real model.
THEOREM BreakerTypeCorrect == BreakerSpec => []BreakerTypeOK
  <1>1. BreakerInit => BreakerTypeOK
    BY DEF BreakerInit, BreakerTypeOK, NoEntry, Entries, ZeroTime, NotCounted, Counts
  <1>2. BreakerTypeOK /\ [BreakerNext]_breakerVars => BreakerTypeOK'
    BY BreakerTypeStep
  <1>3. QED
    BY <1>1, <1>2, PTL DEF BreakerSpec

-----------------------------------------------------------------------------
(***************************************************************************)
(* How one step may change one entry of the map: not at all, delete it     *)
(* (expired, or by a reset), or write a new entry over one it may clobber. *)
(* Every safety property of the breaker follows from this.                 *)
(***************************************************************************)

\* The deadline disableModel computes.
NewUntil(key, reason) ==
    IF reason = "unavailable" THEN ZeroTime ELSE now + Cooldown(key, reason)

\* disableModel replaced the entry of key.
Wrote(key, reason) ==
    /\ disabledUntil'[key] = [until |-> NewUntil(key, reason), reason |-> reason]
    /\ ~Keeps(disabledUntil[key], NewUntil(key, reason))
    /\ key[2] = AnyModel => reason = "rate_limit"
    /\ now' = now

\* All that one step can do to the entry of one key.
EntryChange(key) ==
    \/ disabledUntil'[key] = disabledUntil[key]
    \/ disabledUntil'[key] = NoEntry /\ (Disabled(key) => ResetCircuitBreakers)
    \/ \E reason \in Reasons : Wrote(key, reason)

\* DisableModel on one key changes that key's entry only, and writes it only
\* when Keeps allows.
LEMMA DisableModelEffect ==
    ASSUME BreakerTypeOK, NEW k \in Keys, NEW r \in Reasons, DisableModel(k, r),
           k[2] = AnyModel => r = "rate_limit", now' = now, NEW key \in Keys
    PROVE  EntryChange(key)
  <1>1. CASE Keeps(disabledUntil[k], NewUntil(k, r))
    BY <1>1 DEF DisableModel, NewUntil, EntryChange
  <1>2. CASE ~Keeps(disabledUntil[k], NewUntil(k, r))
    <2>1. disabledUntil' = [disabledUntil EXCEPT ![k] = [until |-> NewUntil(k, r), reason |-> r]]
      BY <1>2 DEF DisableModel, NewUntil
    <2>2. CASE key = k
      <3>1. Wrote(key, r)
        BY <1>2, <2>1, <2>2 DEF Wrote, BreakerTypeOK
      <3>2. QED
        BY <3>1 DEF EntryChange
    <2>3. CASE key # k
      BY <2>1, <2>3 DEF BreakerTypeOK, EntryChange
    <2>4. QED
      BY <2>2, <2>3
  <1>3. QED
    BY <1>1, <1>2

\* Every step of the breaker changes every entry in one of those ways.
LEMMA StepChangesEntries ==
    ASSUME BreakerTypeOK, [BreakerNext]_breakerVars, NEW key \in Keys
    PROVE  EntryChange(key)
  <1>0. \A spec \in Specs : spec \in Keys /\ spec[2] # AnyModel
    BY NamesAssumption DEF Specs, Keys
  <1>1. ASSUME NEW spec \in Specs, NEW reason \in {"error", "rate_limit", "unavailable"},
               DisableModelUpstream(spec, reason)
        PROVE  EntryChange(key)
    BY <1>0, <1>1, DisableModelEffect DEF DisableModelUpstream, Reasons
  <1>2. ASSUME NEW u \in Upstreams, TrackGlobalRateLimit(u)
        PROVE  EntryChange(key)
    <2>1. <<u, AnyModel>> \in Keys /\ "rate_limit" \in Reasons
      BY DEF Keys, Reasons
    <2>2. QED
      BY <1>2, <2>1, DisableModelEffect DEF TrackGlobalRateLimit
  <1>3. ASSUME NEW c \in Callers, DisableCounted(c)
        PROVE  EntryChange(key)
    <2>1. counted[c].key \in Specs
      BY <1>3 DEF DisableCounted, BreakerTypeOK, Counts
    <2>2. QED
      BY <1>0, <1>3, <2>1, DisableModelEffect DEF DisableCounted, Reasons
  <1>4. ASSUME NEW k \in Keys, IsModelDisabled(k)
        PROVE  EntryChange(key)
    BY <1>4 DEF IsModelDisabled, BreakerTypeOK, EntryChange
  <1>5. CASE ResetCircuitBreakers
    BY <1>5 DEF ResetCircuitBreakers, EntryChange
  <1>6. CASE UNCHANGED disabledUntil
    BY <1>6 DEF EntryChange
  <1>7. \/ \E c \in Callers, spec \in Specs : CountRateLimit(c, spec)
        \/ \E spec \in Specs : ClearRateLimitRetry(spec)
        \/ \E models \in ConfiguredLists : PublishConfig(models)
        \/ Tick
        \/ UNCHANGED breakerVars
        => UNCHANGED disabledUntil
    BY DEF CountRateLimit, ClearRateLimitRetry, PublishConfig, Tick, breakerVars
  <1>8. QED
    BY <1>1, <1>2, <1>3, <1>4, <1>5, <1>6, <1>7 DEF BreakerNext

\* Time never goes back.
LEMMA TimeAdvances ==
    ASSUME BreakerTypeOK, [BreakerNext]_breakerVars
    PROVE  now' \in Nat /\ now <= now'
  <1>1. now \in Nat
    BY DEF BreakerTypeOK
  <1>2. now' = now + 1 \/ UNCHANGED now
    BY Zenon DEF BreakerNext, DisableModelUpstream, TrackGlobalRateLimit, CountRateLimit,
       DisableCounted, IsModelDisabled, ClearRateLimitRetry, ResetCircuitBreakers,
       PublishConfig, Tick, breakerVars
  <1>3. QED
    BY <1>1, <1>2

-----------------------------------------------------------------------------
\* No disable lasts longer than the cooldown of its reason, and only
\* "unavailable" has no deadline (handlers.go:102-110, 340-350).
THEOREM CooldownBounded == BreakerSpec => []CooldownBound
  <1>1. BreakerInit => CooldownBound
    BY DEF BreakerInit, CooldownBound, NoEntry
  <1>2. BreakerTypeOK /\ CooldownBound /\ [BreakerNext]_breakerVars => CooldownBound'
    <2> SUFFICES ASSUME BreakerTypeOK, CooldownBound, [BreakerNext]_breakerVars,
                        NEW key \in Keys
                 PROVE  LET info == disabledUntil'[key] IN
                        /\ info.reason = "unavailable" => info.until = ZeroTime
                        /\ info.reason = "rate_limit" => info.until <= now' + RateLimitCooldown
                        /\ info.reason \in {"error", "rate_limit_escalated"} =>
                              info.until <= now' + CircuitBreakerCooldown
      BY DEF CooldownBound
    <2>1. now' \in Nat /\ now \in Nat /\ now <= now' /\ disabledUntil[key].until \in Nat
      BY TimeAdvances DEF BreakerTypeOK, Entries
    <2>2. CASE disabledUntil'[key] = disabledUntil[key]
      BY <2>1, <2>2, CooldownAssumption DEF CooldownBound
    <2>3. CASE disabledUntil'[key] = NoEntry
      BY <2>3 DEF NoEntry
    <2>4. ASSUME NEW reason \in Reasons, Wrote(key, reason)
          PROVE  LET info == disabledUntil'[key] IN
                 /\ info.reason = "unavailable" => info.until = ZeroTime
                 /\ info.reason = "rate_limit" => info.until <= now' + RateLimitCooldown
                 /\ info.reason \in {"error", "rate_limit_escalated"} =>
                       info.until <= now' + CircuitBreakerCooldown
      BY <2>1, <2>4, CooldownType, CooldownAssumption DEF Wrote, NewUntil
    <2>5. QED
      BY <2>2, <2>3, <2>4, StepChangesEntries DEF EntryChange
  <1>3. QED
    BY <1>1, <1>2, BreakerTypeCorrect, PTL DEF BreakerSpec

\* A transport error never costs a model that no preference list names more
\* than DiscoveredCooldown (handlers.go:326-331).
THEOREM DiscoveredBounded == BreakerSpec => []DiscoveredRetriedSooner
  <1>1. BreakerInit => DiscoveredRetriedSooner
    BY DEF BreakerInit, DiscoveredRetriedSooner, NoEntry, Specs, Keys
  <1>2. BreakerTypeOK /\ DiscoveredRetriedSooner /\ [BreakerNext]_breakerVars
          => DiscoveredRetriedSooner'
    <2> SUFFICES ASSUME BreakerTypeOK, DiscoveredRetriedSooner, [BreakerNext]_breakerVars,
                        NEW spec \in Specs \ UNION ConfiguredLists,
                        disabledUntil'[spec].reason = "error"
                 PROVE  disabledUntil'[spec].until <= now' + DiscoveredCooldown
      BY DEF DiscoveredRetriedSooner
    <2>1. spec \in Keys /\ ~IsConfiguredModel(spec)
      BY NamesAssumption DEF Specs, Keys, IsConfiguredModel, BreakerTypeOK
    <2>2. now' \in Nat /\ now \in Nat /\ now <= now' /\ disabledUntil[spec].until \in Nat
      BY <2>1, TimeAdvances DEF BreakerTypeOK, Entries
    <2>3. CASE disabledUntil'[spec] = disabledUntil[spec]
      BY <2>2, <2>3, CooldownAssumption DEF DiscoveredRetriedSooner
    <2>4. CASE disabledUntil'[spec] = NoEntry
      BY <2>4 DEF NoEntry
    <2>5. ASSUME NEW reason \in Reasons, Wrote(spec, reason)
          PROVE  disabledUntil'[spec].until <= now' + DiscoveredCooldown
      BY <2>1, <2>2, <2>5, CooldownAssumption DEF Wrote, NewUntil, Cooldown
    <2>6. QED
      BY <2>1, <2>3, <2>4, <2>5, StepChangesEntries DEF EntryChange
  <1>3. QED
    BY <1>1, <1>2, BreakerTypeCorrect, PTL DEF BreakerSpec

\* An upstream-wide disable is always a rate limit, for the short cooldown:
\* nothing takes a whole upstream away for longer (handlers.go:398-402, 415-417).
THEOREM UpstreamKept == BreakerSpec => []UpstreamNeverLost
  <1>1. BreakerInit => UpstreamNeverLost
    BY DEF BreakerInit, UpstreamNeverLost, NoEntry, Keys
  <1>2. BreakerTypeOK /\ UpstreamNeverLost /\ [BreakerNext]_breakerVars => UpstreamNeverLost'
    <2> SUFFICES ASSUME BreakerTypeOK, UpstreamNeverLost, [BreakerNext]_breakerVars,
                        NEW u \in Upstreams, NEW key \in Keys, key = <<u, AnyModel>>,
                        disabledUntil'[key].reason # "none"
                 PROVE  /\ disabledUntil'[key].reason = "rate_limit"
                        /\ disabledUntil'[key].until <= now' + RateLimitCooldown
      BY DEF UpstreamNeverLost, Keys
    <2>1. now' \in Nat /\ now \in Nat /\ now <= now' /\ disabledUntil[key].until \in Nat
      BY TimeAdvances DEF BreakerTypeOK, Entries
    <2>2. CASE disabledUntil'[key] = disabledUntil[key]
      BY <2>1, <2>2, CooldownAssumption DEF UpstreamNeverLost
    <2>3. CASE disabledUntil'[key] = NoEntry
      BY <2>3 DEF NoEntry
    <2>4. ASSUME NEW reason \in Reasons, Wrote(key, reason)
          PROVE  /\ disabledUntil'[key].reason = "rate_limit"
                 /\ disabledUntil'[key].until <= now' + RateLimitCooldown
      BY <2>1, <2>4, CooldownType, CooldownAssumption DEF Wrote, NewUntil
    <2>5. QED
      BY <2>2, <2>3, <2>4, StepChangesEntries DEF EntryChange
  <1>3. QED
    BY <1>1, <1>2, BreakerTypeCorrect, PTL DEF BreakerSpec

-----------------------------------------------------------------------------
\* While a key is disabled only ResetCircuitBreakers ends that early: any
\* other step keeps or extends its deadline, or makes the disable permanent,
\* and a permanent one stays (handlers.go:340-350).
THEOREM NeverClobbered == BreakerSpec => NeverShortened
  <1> DEFINE Kept(key) ==
        \/ disabledUntil'[key].reason = "unavailable"
        \/ /\ disabledUntil[key].reason # "unavailable"
           /\ disabledUntil'[key].until >= disabledUntil[key].until
           /\ disabledUntil'[key].reason # "none"
  <1>1. ASSUME BreakerTypeOK, [BreakerNext]_breakerVars, NEW key \in Keys,
               Disabled(key), disabledUntil' # [k \in Keys |-> NoEntry]
        PROVE  Kept(key)
    <2>1. disabledUntil[key] \in Entries /\ disabledUntil[key].reason # "none"
      BY <1>1 DEF Disabled, BreakerTypeOK
    <2>2. CASE disabledUntil'[key] = disabledUntil[key]
      BY <2>1, <2>2 DEF Entries
    <2>3. CASE disabledUntil'[key] = NoEntry /\ (Disabled(key) => ResetCircuitBreakers)
      BY <1>1, <2>3 DEF ResetCircuitBreakers
    <2>4. ASSUME NEW reason \in Reasons, Wrote(key, reason)
          PROVE  Kept(key)
      <3>1. NewUntil(key, reason) \in Nat
        BY <1>1, CooldownType DEF NewUntil, ZeroTime, BreakerTypeOK
      <3>2. reason # "unavailable" => NewUntil(key, reason) # ZeroTime
        BY <1>1, CooldownType DEF NewUntil, ZeroTime, BreakerTypeOK
      <3>3. QED
        BY <2>1, <2>4, <3>1, <3>2 DEF Wrote, Keeps, Entries, Reasons
    <2>5. QED
      BY <1>1, <2>2, <2>3, <2>4, StepChangesEntries DEF EntryChange
  <1>2. BreakerTypeOK /\ [BreakerNext]_breakerVars =>
          [\A key \in Keys :
             Disabled(key) /\ disabledUntil' # [k \in Keys |-> NoEntry] => Kept(key)]_breakerVars
    BY <1>1
  <1>3. QED
    BY <1>2, BreakerTypeCorrect, PTL DEF BreakerSpec, NeverShortened

\* A counted 429 always takes effect, whatever other goroutines do between the
\* two critical sections of trackRateLimit (handlers.go:420-434).
THEOREM CountedApplied == BreakerSpec => CountedTakesEffect
  <1> DEFINE Applied(c) ==
        LET info == disabledUntil'[counted[c].key]
            wait == IF counted[c].retries >= 2 THEN CircuitBreakerCooldown
                                               ELSE RateLimitCooldown
        IN  info.reason = "unavailable" \/ info.until >= now + wait
  <1>1. ASSUME BreakerTypeOK, NEW c \in Callers, DisableCounted(c)
        PROVE  Applied(c)
    <2> DEFINE key == counted[c].key
               reason == IF counted[c].retries >= 2 THEN "rate_limit_escalated"
                                                    ELSE "rate_limit"
               wait == IF counted[c].retries >= 2 THEN CircuitBreakerCooldown
                                                  ELSE RateLimitCooldown
    <2>1. key \in Keys /\ disabledUntil[key] \in Entries
      BY <1>1 DEF DisableCounted, BreakerTypeOK, Counts, Specs, Keys
    <2>2. Cooldown(key, reason) = wait /\ now + wait \in Nat
      BY <1>1, CooldownAssumption DEF Cooldown, BreakerTypeOK
    <2>3. DisableModel(key, reason)
      BY <1>1 DEF DisableCounted
    <2>4. CASE Keeps(disabledUntil[key], now + wait)
      <3>1. disabledUntil' = disabledUntil
        BY <2>2, <2>3, <2>4 DEF DisableModel
      <3>2. QED
        BY <2>1, <2>2, <2>4, <3>1 DEF Keeps, Entries
    <2>5. CASE ~Keeps(disabledUntil[key], now + wait)
      <3>1. disabledUntil' = [disabledUntil EXCEPT ![key] = [until |-> now + wait, reason |-> reason]]
        BY <2>2, <2>3, <2>5 DEF DisableModel
      <3>2. QED
        BY <1>1, <2>1, <2>2, <3>1 DEF BreakerTypeOK
    <2>6. QED
      BY <2>4, <2>5
  <1>2. ASSUME BreakerTypeOK, [BreakerNext]_breakerVars, NEW c \in Callers,
               counted[c] # NotCounted, counted'[c] = NotCounted
        PROVE  DisableCounted(c)
    <2>1. ASSUME NEW d \in Callers, NEW spec \in Specs, CountRateLimit(d, spec)
          PROVE  FALSE
      <3>1. CASE d = c
        BY <1>2, <2>1, <3>1 DEF CountRateLimit
      <3>2. CASE d # c
        BY <1>2, <2>1, <3>2 DEF CountRateLimit, BreakerTypeOK
      <3>3. QED
        BY <3>1, <3>2
    <2>2. ASSUME NEW d \in Callers, d # c, DisableCounted(d)
          PROVE  FALSE
      BY <1>2, <2>2 DEF DisableCounted, BreakerTypeOK
    <2>3. counted' # counted
      BY <1>2
    <2>4. QED
      BY <1>2, <2>1, <2>2, <2>3
      DEF BreakerNext, DisableModelUpstream, TrackGlobalRateLimit, IsModelDisabled,
          ClearRateLimitRetry, ResetCircuitBreakers, PublishConfig, Tick, breakerVars
  <1>3. BreakerTypeOK /\ [BreakerNext]_breakerVars =>
          [\A c \in Callers :
             counted[c] # NotCounted /\ counted'[c] = NotCounted => Applied(c)]_breakerVars
    BY <1>1, <1>2
  <1>4. QED
    BY <1>3, BreakerTypeCorrect, PTL DEF BreakerSpec, CountedTakesEffect
=============================================================================
