# A TLA+ model of claude-proxy

claude-proxy answers Anthropic's `POST /v1/messages` by calling one of several
OpenAI-compatible upstreams ("zen" and others with an API key, "codex" with
OAuth tokens). It walks an ordered preference list of models, remembers in a
circuit breaker which of them have failed, and converts requests, responses and
SSE streams between the two protocols. This directory models the part of it
where concurrency and failure make the outcome hard to see, checks it with TLC
and proves the main results with TLAPS.

- [1. The system](#1-the-system)
- [2. Modules](#2-modules)
- [3. CircuitBreaker](#3-circuitbreaker)
- [4. Fallback](#4-fallback)
- [5. StreamConverter](#5-streamconverter)
- [6. CodexStream](#6-codexstream)
- [7. StreamPipeline](#7-streampipeline)
- [8. Credentials](#8-credentials)
- [9. ModelRouting](#9-modelrouting)
- [10. What the runs show](#10-what-the-runs-show)
- [11. Proofs](#11-proofs)
- [12. Where the code and its documentation part](#12-where-the-code-and-its-documentation-part)
- [13. Plan](#13-plan)
- [14. Not modelled](#14-not-modelled)

## 1. The system

One Go process. Every HTTP request runs in a goroutine of its own; a handful of
background goroutines (token refresh, config watcher, model discovery, startup
probes) and the dashboard's handlers run beside them. Everything below is
under `src/`.

| component | state | operations | correct when |
|---|---|---|---|
| **circuit breaker** `internal/proxy/handlers.go` | `disabledUntil` (key -> deadline, reason), `rateLimitRetries` (model -> count), both under `disabledMu` | `disableModel` and its callers, `trackRateLimit`, `isModelDisabled`, `clearRateLimitRetry`, `ResetCircuitBreakers`, `allModelsDisabledByRateLimit`, the dashboard's readings | a disable is never shortened, lost or longer than its reason allows; an upstream is never lost for good |
| **request fallback** `handlers.go`, `handlers_stream.go` | per request: the list, the index, the largest Retry-After, the reply; shared: the breaker, the registry, the configuration | the filter of `HandleMessages`, the loops `handleNonStream` and `handleStream`, `writePreferenceExhausted` | models are tried in order, once each, none silently dropped; one answer, nothing tried after it; an account limit stops the cascade; each request ends |
| **model routing** `handlers.go`, `internal/config/config_precompute.go` | the published `config.Config` | resolution of the requested model, `buildPreferenceList`, `EffectiveModels`, `UpstreamForModel`, `Precompute` | a model that is asked for and listed is tried, with its own upstream; no model is tried twice; the fallbacks come in the order of one configuration in force, whatever changes while the request loads it |
| **provider registry** `internal/providers/` | an atomic pointer to `Registry`; in it the upstream clients and a replaceable Codex client | `Provider`, `Codex`, `SetCodex`, `replaceRouter`; `Invoke`, `ParseResponse`, `StreamChunks` of a client | a call uses one client throughout; a replaced one serves its calls to the end |
| **SSE conversion** `internal/convert/stream.go` | block index, open text block, tool calls by index, `started`, `finished` | `Convert` over a channel of chunks | blocks open and close once, deltas go to an open block, one message start, delta and stop |
| **stream parsers** `internal/openai/stream.go`, `internal/providers/codex/stream.go`, `internal/ioutil/timeout_reader.go` | reader and parser goroutines over bounded channels, an idle-timeout monitor; the Codex parser's item maps | read lines, parse, emit chunks, stop on timeout or disconnect | content arrives in order; a truncated stream is an error, a whole one is not; the request ends, and after it every goroutine that can; no text or argument lost or doubled, as far as ids tell; streaming or not, the answer is the same |
| **model catalog** `internal/models/catalog.go` | cached models, fetch time, endpoint, key | `FetchWithContext`, `CachedModels`, `Reconfigure` | the cache belongs to the current endpoint |
| **runtime configuration** `internal/proxy/server.go`, `handlers.go`, `internal/web/server.go`, `cmd/claude-proxy/main.go` | the handler's atomic pointer to `config.Config`, the `cfg` of main, `config.json` | `UpdateConfig`, `ReorderModels`, `ApplyDiscoveredOpenCodeModels`, `RebuildRouter`, `reloadConfig` | the three copies agree when nobody is changing them; a discovery replaces no explicit list of models |
| **token refresh** `internal/proxy/server.go`, `internal/providers/codex/oauth.go` | tokens on disk, in the cache of `oauth.go`, in the refresh loop and in the client | `StartTokenRefresh`, `LoadTokens`, `SaveTokens`, `UpdateToken`, `InvalidateTokenCache` | all copies settle on one pair of token and account; a token is never kept with another account's refresh token |
| **OAuth login** `internal/providers/codex/oauth.go`, `internal/web/server.go` | the port of the callback server, the login on offer and its status | start, callback, timeout, completion; the login on the command line | a pending login is completed or fails; the port belongs to one that waits |
| **startup probes** `cmd/claude-proxy/main.go` | probe results | probe every model, feed the breaker | a probe disables only what its answer condemns |
| server lifecycle, middleware | the server and its context | start, shutdown, authentication, limits | (sequential) |
| dashboard pages, command line, configuration loading, logging, message conversion | none that outlives a call | pure translation and I/O | (tests) |

How they interact: a request goroutine reads the configuration and the registry
through atomic pointers, anew at each use, and the breaker through `disabledMu`,
one short critical section per call. Any other goroutine may run between two of
these. The registry's client answers a call with an HTTP response or an error;
a streaming answer goes through parser goroutines to the stream converter in
the request goroutine. The dashboard, the watcher and discovery replace the
configuration, the registry and the tokens under running requests.

What makes it hard: check-then-act across critical sections (a model found
enabled is called later; a 429 is counted in one section and applied in
another), expiry by the clock between two readings, an index moved by hand in a
loop with a dozen exits, replies that depend on what other requests wrote, and
contexts that end at any moment. `PROJECT.json` lists each hazard at its line
with the properties that cover it.

## 2. Modules

| module | what it is |
|---|---|
| `CircuitBreaker` | the breaker: one action per critical section |
| `CircuitBreakerProofs` | its type correctness and five properties, proved |
| `Fallback` | extends `CircuitBreaker` by request goroutines: filter, loop, answers, replies |
| `MessagesContract` | what a client of `/v1/messages` is promised; `Fallback` implements it |
| `FallbackProofs` | the breaker is refined, types and indices are right, the cascade stops, no model is disabled without an answer that says so: proved |
| `FallbackWalkProofs` | no model is left untried, and the client's contract is refined: proved |
| `MCFallback` | instances for TLC |
| `SSEMessage` | the client of a streamed message and the event grammar it expects |
| `StreamConverter` | chunks in, SSE events out; implements `SSEMessage` for an orderly upstream |
| `StreamConverterProofs` | that refinement and what holds for any upstream: proved |
| `MCStreamConverter` | instances for TLC |
| `CodexStream` | extends `StreamConverter` by the Responses API parser and its adapter: events in, chunks to the converter |
| `CodexStreamProofs` | its types, what the converter's invariant says of it, the usage, the order, the same answer as without streaming: proved |
| `MCCodexStream` | instances for TLC |
| `StreamPipeline` | the goroutines and channels between an upstream's body and the client |
| `StreamPipelineProofs` | its types, and that content is in order, whole messages are whole and cuts have a reason: proved |
| `MCStreamPipeline` | instances for TLC |
| `Credentials` | the copies of the Codex tokens and who moves them: refresher, watcher, operations, restart |
| `CredentialsProofs` | its type correctness and that tokens stay with their refresh tokens, proved |
| `MCCredentials` | instances for TLC |
| `ModelRouting` | the copies of the configuration, the catalog, and the request that reads them |
| `ModelRoutingProofs` | all its safety properties: proved |
| `MCModelRouting` | instances for TLC |

`Fallback` uses the breaker's actions themselves, conjoined with a step of a
request, so there is one definition of each call. `UsesBreaker` states that
nothing else happens to the breaker's variables, which carries every theorem
about the breaker over to the running proxy. TLC checks the breaker there, under the
calls requests make of it; `CircuitBreakerProofs` has it on its own, under any
calls. `CodexStream` uses the converter's
actions in the same way. `StreamPipeline` and `CodexStream` divide one path: the
former has the interleavings of its goroutines and one kind of content, the
latter every kind of event in the one order the channels keep. The channels are
FIFO and each goroutine decides by what it has received so far, so an event can
be carried through before the next one is sent. `ModelRouting` and `Credentials`
divide one configuration in the same way: models and routing in the former,
tokens and the torn file in the latter, and neither half reads the other.

## 3. CircuitBreaker

| model | code |
|---|---|
| `disabledUntil[key]`, `NoEntry` | `h.disabledUntil`; the map has no such key |
| `rateLimitRetries[spec]` | `h.rateLimitRetries`; 0 where absent |
| `counted[c]` | the local `retries` of a caller between the two sections of `trackRateLimit` |
| `configured` | `cfg.Models` of the published configuration, as far as `isConfiguredModel` reads it |
| `now` | `time.Now()` in ticks; `ZeroTime` is the zero `time.Time` |
| `DisableModel` | `disableModel`: cooldown by reason, shorter for a discovered model, early return for an entry not to be clobbered |
| `DisableModelUpstream`, `TrackGlobalRateLimit`, `CountRateLimit`, `DisableCounted`, `IsModelDisabled`, `ClearRateLimitRetry`, `ResetCircuitBreakers` | the functions of these names (`trackRateLimit` is the third to fifth) |
| `AllDisabledByRateLimit` | `allModelsDisabledByRateLimit`, which only reads |

A key is a pair `<<upstream, model>>` and the wildcard is `<<upstream,
AnyModel>>`; `parseModelKey` splits at the first slash, which upstream names do
not contain. The three cooldowns are constants of which only the order is
assumed (one minute < five minutes < one hour). `IsModelDisabled` deletes an
expired entry as the code does.

An expired entry stays in the map until somebody reads it, and `disableModel`
compares deadlines without a look at the clock. `NeverShortened` and
`CountedTakesEffect` are the two sides of that: a running entry is not cut short, an
expired one does not hold off a new disable. That a cooldown ends needs no property:
`isModelDisabled` compares the deadline with the clock, whatever else happens.

Bounds: `MaxTime` stops the clock, `MaxRetries` limits how often a model is
counted. The breaker compares counts with 2 only and deadlines with the clock
only, so a clock one tick longer than the longest cooldown (4 against 1, 2, 3)
has each cooldown expire before, at and after each other one, and counts to 2
reach both sides of the comparison.

## 4. Fallback

A request is a record `req[r]` of what its goroutine keeps in variables; `pc`
is where it stands.

| `pc` | code |
|---|---|
| `filterUpstream`, `filterModel` | the loop over `preferenceModels`; `isModelUpstreamDisabled` is two critical sections, hence two places |
| `loopUpstream`, `loopModel` | the same two checks at the head of the fallback loop, then `providerFor` and the start of the call |
| `waiting` | in `provider.Invoke` or reading the body |
| `counted` | between the two sections of `trackRateLimit` |
| `parse` | `provider.ParseResponse` of a non-stream request |
| `streaming` | the header is out, `StreamConverter.Convert` runs |
| `exhausted` | about to enter `writePreferenceExhausted` |
| `done` | the handler has returned |

`handleNonStream` and `handleStream` are two copies of one loop; the model has
one, and `stream` says which branch holds where they differ (a broken body
aborts a plain request and disables the model for a streaming one, 200 without
SSE exists only for the latter, a plain body is parsed before the answer). Each
answer of an upstream is one action: `CannotEncode`, `CannotMarshal`,
`TransportError`, `BodyBreaksOff`, `RateLimitCounted` (and then
`RateLimitApplied`), `AccountLimitReached`, `Overloaded`, `ModelGone`,
`Rejected`, `Succeeded`, `AnsweredPlainly`, `AnsweredGarbage`, and after a
success `Parsed`, `ParsedFailure` and `StreamEnds`. What an upstream answers is
free, except that a call begun after the context has ended gets no answer.

Around the requests, the clock advances, the dashboard resets the breaker, the
configuration and the registry are replaced and request contexts end; a run
chooses these with `Disturbances`.

Abstracted: a preference list is any duplicate-free sequence from a set (that it has
no duplicates is `FollowsAnOrder` of `ModelRouting`); bodies, status codes within a
class and headers other than Retry-After are left out; a Retry-After is one of a few
positive numbers; reading a body is part of its answer.

History variables: `calls` (models called, per request), `evidence` (what each
model's upstream has said), `cutoff` (when the last account limit a request met
ends). No guard reads them.

`MessagesContract` is the client's view, with no breaker, registry or upstream
in it: a request gets a list; models are called in its order, each at most
once; one answer is given and nothing is called after it; a 200 comes from the
model called last; an upstream's error is relayed only if something was called.
`ServesContract` is the refinement: `list`, `calls` and the kind and model of
the reply are mapped as they stand, all else is hidden.

**Fairness.** Safety needs none. `FairFallbackSpec` is weak fairness of each
request goroutine's steps; the clock may stop. Go runs
a runnable goroutine, `disabledMu` is held only for a few map operations, both
transports bound the wait for response headers, `RequestTimeout` bounds the
rest of a non-stream call, and the idle timeout cuts a silent stream. One wait
has no bound in the code: a streaming request reads an error body under no
deadline (`handlers_stream.go:134`, 189, 209). That an upstream ends those
bodies is an assumption of the liveness result.

## 5. StreamConverter

`SSEMessage` is the client of a streamed message: `client` is what it knows
after the events it has read, `MessageSpec` the grammar (one message start,
blocks one after the other, a message delta, a message stop). An event it does
not expect is counted as a fault of one of three kinds, so that one model
serves well-behaved upstreams and others.

`StreamConverter` is `Convert` with everything it calls; its variables are the
fields of `StreamConverter` and, per index, of `toolCallState`.

| `place` | code |
|---|---|
| `receive` | `range chunks` |
| `start`, `ping` | the two writes that open the message, in the loop or in `finish` |
| `chunk` | the body of the loop, up to the start of a tool call's block |
| `call`, `args` | in `handleToolCallDelta`: before the block's start, before the delta |
| `finish` | in `finish`, after the channel was closed |
| `returned`, `failed` | `Convert` has returned, without or with an error |

A step is one SSE event, because each write can fail and `Convert` then
returns at once (`WriteFails`). A chunk with text, tool calls and a finish
reason is handled part by part, and no part looks at another, so it is modelled
as that many chunks; a usage report counts only in a chunk without choices, as
in the code. A text is non-empty or absent, an argument string too; what
they say is left out. `closePreviousToolCalls` ranges over a map: its closes
come in any order. `OpenTextBlock` covers `ensureTextBlock`; the second call of
it in `writeTextDelta` never finds anything to do.

`Habits` says what the upstream does beyond the orderly: `piecemeal` (a call's
id, name and arguments in any order), `unordered` (a smaller index later),
`interleaved` (a call's deltas after another call or text has begun),
`talkative` (content after a finish reason). `upstream` and `reported` are
history; only `Sends`, the upstream's part, reads `upstream`.

## 6. CodexStream

A response is a sequence of items (`output`): a text, a call, or a call without
arguments. Its events come one at a time in any order, with or without the item's
id (`ids`), terminal events with or without usage; `backend` is what has been sent
of them. Each event is one action, which is the whole way of it:
`processCodexEvent` makes chunks of it, `ParseResponsesStreamWithTimeout` notes
whether it was terminal or failed (`guard`), `ToOpenAIStream` turns it into the
chunks in `pending`, and the converter of section 5 takes these one by one.

| model | code |
|---|---|
| `OutputItemAdded`, `OutputTextDelta`, `ArgumentsDelta`, `Terminal`, `Fails` | the cases of `processCodexEvent` |
| `OutputItemDone` | an event only `ParseResponse` reads |
| `streamed`, `itemIndex` | `streamedText` and `streamedArgs`, `itemIndex`; both by id, which may be the empty string (0) |
| `Supply`, `Missing`, `Supplied` | the fallback that supplies at the end what was not noted as streamed, item by item |
| `Usage`, `Finish`, `FinishReason`, `hasToolUse` | the end of a response in `ToOpenAIStream` |
| `BodyEnds` | the end of the body, a failure without a terminal event |
| `WholeItems`, `WholeReason` | what `ParseResponse` and `TransformResponse` make of the same events for a client that does not stream |

`manners` is history: what upstream did that an orderly one would not, as events
of an item after those of a later one, arguments of a call never announced, an
event after a terminal one, or usage in a later terminal event only. The properties
are stated for all manners (`OneLifecycle`, `EndsWhole`) or name those under which
they hold; `StreamedAsWhole` tolerates the more interesting two, and
`UsageReported` all but the last. Likewise `OrderlyInPlace` and `StreamedAsWhole`
name the ids they need: what an event without id says of an item, the code cannot
match with what others say of it. `forwarded` and
`reason` are history too: how often the converter got each item, in parts and
whole, and the reason the client saw. No guard reads any of the three.

Abstracted: what an id is (the item's position, which is not its index), the text
itself, token counts. An incomplete response is one cut by `max_output_tokens`,
the only reason the code tells apart (`dispatch.go:102`, `response.go:83`); with any
other it acts like a completed one, and counts as one here.

## 7. StreamPipeline

| model | code |
|---|---|
| `reader`'s goroutine | the first goroutine of `parseStreamInternal` and of `parseCodexStreamInternal`: scanner, `lines`, `done` |
| `parser` | the second, with `select` on context and lines |
| `guard`, `adapter` | `ParseResponsesStreamWithTimeout`, `ToOpenAIStream`; Responses API only |
| `handler` | `handleStream` with `Convert` |
| `channel[g]` | the channel goroutine `g` sends on and closes |
| `hold[g]`, `leaving` | what `g` is about to send, and whether it returns after that |
| `reader` (variable), `TimePasses`, `MonitorChecks` | `IdleTimeoutReader`, its ticker and `monitor` |
| `saw` | `terminal` and `failed` of the guard |
| `sent`, `wire`, `clientGone` | the upstream and the client, both free |

The reader and the parser differ between the protocols only in what a line means
and in whether the end of the body is an error: the Responses API ends with its
body, which the guard judges. A line stands for an event and its content for
any chunk. A tick of `TimePasses` is half the idle timeout, and time passes
unnoticed by the reader only while it waits for the body or at a full channel
(`ReaderWaits`); a ticker that fires is handled before the next tick.

**Fairness.** Each goroutine is weakly fair, and so are time and the monitor.
This includes the writes of the handler: a client that neither reads nor leaves
is cut off by the network, which is outside the code. Nothing is assumed of the
upstream; `RequestEnds` is the monitor's work.

Goroutines that send without a `select` (parser, guard, adapter) stay behind a
channel that was full when its receiver returned. `Stranded` says exactly when,
and `EndsOrStranded` that all others end; section 12 has more about it.

## 8. Credentials

The access token with its account, and the refresh token, are in the file, in
the cache of `oauth.go`, in the hands of the refresher, in the configurations of
main and of the handler, in the hands of the watcher, and in the client of the
current registry. A token is named by the login it comes from and its
generation; each refresh gives the next one.

| model | code |
|---|---|
| `Loads`, `Caches`, `Refreshes`, `RefreshFails`, `ReadsSettings`, `Truncates`, `Fills`, `UpdatesToken` | `StartTokenRefresh` with `LoadTokens`, `RefreshTokens` and `SaveTokens` |
| `Looks`, `Reads`, `LoadsRouter`, `SetsCodex`, `Invalidates` | `StartConfigWatcher`, `reloadConfig` |
| `Save`, `Reorder`, `RebuildRouter` | the callbacks of the dashboard in `cmdServe` |
| `CheckPending`, `StartOAuthServer`, `Offers`, `Publishes`, `LoginFails`, `LoginCompletes` | a login in the dashboard: `StartCodexLogin`, the callback server, the callback in `cmdServe` |
| `CliLogin` | `cmdCodexLogin`, another process |
| `Restarts` | a stop or crash at any moment, and `cmdServe` up to the start of the goroutines |

`os.WriteFile` truncates and then writes, so the file is `torn` between
`Truncates` and `Fills`; whoever reads it then sees an empty file
(`SettingsRead`), a broken one (`Reads`), or refuses to start (`Restarts`).
A crash leaves it so for good.

`overlapped` is history: two workers have been changing the credentials at once.
`Settles` excepts it, because then the last writer wins whoever it is; the
races it leaves in are those of the watcher, the cache and the registry with one
writer at a time, which the code sets out to get right.

Abstracted: when a refresh is due (it may be at any time, or never), expiry,
PKCE, and that polling takes time. All Codex logins are to different accounts,
the worst case for `RefreshTokenBelongs`.

**Fairness.** What an operation has begun goes on, the watcher's ticker ticks,
and a login nobody completes times out (`LoginFails` is part of
`OperationStep`). That a refresh is made, or fails, is not assumed.

## 9. ModelRouting

| model | code |
|---|---|
| `handler`, `main`, `file` | `h.cfg`, `cfg` in `cmdServe` (which the dashboard shares), `config.json` |
| `overrides` | the models given by flag or environment, which win over the file at each start |
| `ChecksReady`, `Resolves`, `ComparesDefault`, `ChecksRouting`, `Routes`, `ChecksUnlisted`, `ChecksAllowed`, `FindsUpstream`, `BuildsList` | `HandleMessages`, one step for each of its nine loads of the configuration |
| `PreferenceList`, `Discovered` | `buildPreferenceList`, `appendDiscoveredModels` |
| `FetchStarts`, `FetchFails`, `FetchEnds` | `FetchWithContext`, by the discovery of a start and by a listing of models |
| `Discovers`, `Applies` | `ApplyDiscoveredOpenCodeModels` |
| `Save`, `RebuildRouter`, `Reorder`, `Stores`, `Takes`, `Persists` | the callbacks of the dashboard, with `ReorderModels` and `Reconfigure` |
| `Restarts` | a stop at any moment and `Load` |

A save submits the dashboard's form, which has no models and gets main's, or through
the API any configuration, which may have some (`Submitted`). A configuration is its
models, the model some requests are routed to,
`AllowUnlisted`, `OnlyPreferredModels` and the base URL. `ReasoningModel` and
`CompletionModel` act alike and are one field; the kind of a request is given by
what it asks for. A model's `Home` stands for the upstream the list names it
with. Loads for a log line, or for the pass-through of keys, are left out. No
list has a model twice (`Lists`): `dedupeModels`, `FilteredModels` and
`ReorderModels` see to it. `Kept(seq, set)` is what their loops and those of
`buildPreferenceList` do; it is a recursive function rather than `SelectSeq`, so
that the proofs can unfold it. One model of the instance is listed with Codex and
is in the free catalog too.

History: `inForce` of the request (every configuration that has been the
handler's since it began), `overlapped` (two changed the configuration at once),
`crossed` (the catalog was reconfigured during a fetch). The exceptions the
properties make are what the code does not attempt: there is no lock around a
change, and no fetch is tied to the URL it was begun with. What comes of a save that
overlaps a discovery is a run of its own (section 12).

`FollowsAnOrder` says what list a request gets, its head included (`MayHead`). It is
what the code does, not what its documentation says: the model asked for comes
first (section 12).

## 10. What the runs show

| run | instance | states | properties |
|---|---|---|---|
| `fallback` | one request, three models on two upstreams in both orders, all twelve answers, both modes, registry, configuration and context changing; fair | 173k | `FallbackTypeOK`, `NothingUntried`, `ServesContract`, `EventuallyAnswered` |
| `fallback_burst` | two requests in and out of `trackRateLimit`, two models of one upstream, one of them configured or not, resets, a clock past the longest cooldown | 539k | `BreakerTypeOK`, `CooldownBound`, `DiscoveredRetriedSooner`, `UpstreamNeverLost`, `NeverShortened`, `CountedTakesEffect`, `EvidenceBacked`, `CascadeStopped`, `UsesBreaker` |
| `stream` | three tool calls, text, up to five blocks, no habits | 4k | `ConverterTypeOK`, `BlocksAgree`, `WellFormed` |
| `codex` | six responses of two items each, with and without ids, one or two deltas per item, two terminal events with and without usage, any order | 2.8M | `CodexTypeOK`, `OneLifecycle`, `EndsWhole`, `OrderlyInPlace`, `StreamedAsWhole`, `UsageReported` |
| `pipeline` | both protocols, channels of one place, a timeout of two ticks; for chat any two lines, or six that fill every channel | 299k | `PipelineTypeOK`, `InOrder`, `WholeIsComplete`, `CutForReason`, `RequestEnds`, `EndsOrStranded` |
| `credentials` | two operations of any of the five kinds, two generations of tokens, with and without credentials at first | 686k | `CredentialsTypeOK`, `RefreshTokenBelongs`, `Settles`, `LoginResolves` |
| `routing` | one request, two operations, the fetch of the start and one of a listing, three models, two URLs, three first configurations, three forms, one of which names models and allows unlisted ones | 4.1M | `RoutingTypeOK`, `AskedIsTried`, `OwnUpstream`, `FollowsAnOrder`, `CopiesAgree`, `CatalogOfUpstream`, `ExplicitKept` |

Three models on two upstreams is the least in which the jump after a conversion
error can land before, at and behind the end of the list, and skip a model.
Two requests are the least that interleave; a third would add another writer of
the same entries, which `NeverShortened` (proved for any number) already rules
on. `fallback_burst` has one upstream because the cascade concerns siblings,
and leaves out streaming and a Retry-After, which differ in nothing the properties
read.

Three calls are the least with a call between two others; two calls and a text give
every pair of blocks that can be confused, and `MaxBlocks` only stops texts from
alternating with calls for ever. In `codex` two items give every pair of kinds whose
events can interleave, two deltas tell "in parts" from "whole" (one item has two,
which is enough: what they are noted under is the same), and a second terminal event
is the least that repeats one, with the usage in either. One item whose deltas have
no id, one announced and streamed but listed without, and one listed but streamed
without are the ways its events can fail to match. The theorems of section 11 about
the converter need none of these bounds.

In `pipeline` a channel of one place fills as soon as its receiver is behind;
with the 16 of the code the same states need more lines. Two ticks are the least
in which a tick finds the body not yet silent for the timeout.

Two operations are the least that race, and the restart among them is the
operation after which the other finds another file; two generations let a
refresh happen before and after a login. Where liveness is checked no symmetry
is used. In `routing` the three forms are the least: one that changes nothing, one
with another URL and a model of the kind, one with a list of its own.

Every property has a mutant: a plausible bug in one definition, kept in the
module beside the definition it replaces, that violates it in the same run.

Five more runs expect a violation; section 12 discusses them.

## 11. Proofs

All theorems hold for every set of upstreams, models, requests, preference
lists, answers, disturbances and operations and for all cooldowns in order;
assumed are only the named `ASSUME`s of the modules, which every run evaluates,
and in one theorem (`OrderlyUpstreamInPlace`) a hypothesis of its own.

`CircuitBreakerProofs`. `BreakerTypeOK` is inductive. Everything else rests on
one lemma, `StepChangesEntries`: a step leaves the entry of a key alone, drops
it (only when it is not in force, or by a reset), or writes what `disableModel`
computes after `Keeps` has let it (`EntryChange`). From it:
`CooldownBounded`, `DiscoveredBounded` and `UpstreamKept` are inductive, given
types and that the clock does not go back; `NeverClobbered` and `CountedApplied`
are about one step.

`FallbackProofs`.

- `RequestInv` - each request's record has its type *and* its position is one
  of the list it is about to index. The two are inductive only together: the
  type of `Current(q)` depends on the position, and what a step appends or
  disables on that type. `FallbackTypeCorrect` follows.
- `BreakerRefined` - given `RequestInv`, every step of a request is a step of
  the breaker or leaves it alone, so `FallbackSpec => BreakerSpec`, and the
  breaker's invariants may be used below.
- `CascadeAlwaysStopped` - the property speaks of a call, the cause lies some
  steps back: the request read the upstream's key, then the model's. The
  strengthening is `CutoffKept` (until the cutoff of any request, the upstream's
  key is disabled as rate limited at least that long: no call shortens it, by
  the lemmas of the breaker, and only a reset, which clears the cutoffs, drops
  it) and `CheckPassed` (a request between the two checks has no cutoff ahead
  on its upstream). `CutoffKept` needs `UpstreamNeverLost` and that an entry
  without reason has no deadline: otherwise a longer entry of another kind
  might stand in the key's place.

- `EvidenceAlwaysBacked` - what an upstream has said is never forgotten, and
  each disable names a reason just given, with one exception: a 429 is counted
  in one critical section and disables in the next, and anything may happen in
  between. `CountBacked` says that a caller between the two has a 429 of the
  model it counted to show; with it `EvidenceBacked` is inductive.

`FallbackWalkProofs`. Two properties of one request rest on one invariant of
its record and the calls it has made, `Walk`:

- `NoneDropped` - a model of the list has a fate or is still ahead, in the list
  while filtering and in the usable list afterwards; hence `NothingLeftUntried`.
- `JumpsExplained` - a model is jumped over only after a call of its upstream.
- `ListKept` - the usable models are those of the list, in its order. That the
  filter keeps the order needs `ListsAssumption`: no list names a model twice
  (`buildPreferenceList` drops duplicates).
- `CallsMade` - the calls made lie behind the position, the last one at it while
  its answer is handled; `OpenReply` - nothing is written before that.
  With `ListKept`, a model called next is behind all those called before, and a
  200 is from the model called last: `ContractServed`, the refinement.

No part of it mentions the breaker: whatever other requests do to it only
decides which branch a request takes.

`StreamConverterProofs`.

- `ConverterInv`, for every upstream: where the client is in the message is a
  function of `place`, `started` and `finished` (`PhaseKnown`), and the client
  has no block open that the converter takes for closed (`OpenKnown`, which
  needs that a call's block begins only once). `MessageHasOneLifecycle` and
  `StreamEndsWhole` follow.
- `ConformingInv`, for an upstream without habits: `BlocksAgree` is not
  inductive by itself, because whether a delta finds its block open depends on
  what upstream may send next. The strengthening ties the two together: the
  call upstream is sending is either in hand and about to begin (`Fresh`) or
  open (`SendingKnown`), a call about to begin holds the next index
  (`CallReady`), and after a finish reason nothing is open (`FinishKnown`).
  With it each event is the next of the grammar: `StreamIsWellFormed`, a
  refinement for any number of calls and blocks.

`CodexStreamProofs`. Every step of the parser's end leaves the converter alone or
is a step of it, so `ConverterInv` carries over, and with it `CodexMessageIsWhole`.

- `CodexTyped` - that what a terminal event makes is a sequence of chunks is a
  fact about `Supplied`, a recursion over the items. It is proved without
  induction: of the positions where it would fail there is a least one (`Least`),
  and the equation of `Supplied` (`SuppliedSo`) excludes it. The same argument
  gives the position and the order of what is supplied (`TerminalMakes`).
- `UsageReachesClient` - the first usage there is is ahead of the finish reason
  wherever both are on their way (`UsageKnown`), as long as it is not one of a later
  terminal event (`Timely`).
- `OrderlyUpstreamInPlace` - an orderly upstream makes the converter's upstream
  one without habits: `EventsOrderly` says that the chunks on their way are what
  such an upstream may send next. What it is at and what it has announced are
  ahead of the converter by at most the first of them (`CallsFollow`), and
  behind that come only supplied items, in order (`ContentFirst`, `CallFirst`).
  Hypothesis `IndexesIncrease`: of two items the later has the larger
  `output_index`; the API numbers them so, and the converter closes blocks by it.
  That the arguments a terminal event supplies find the call's index needs the id it
  was announced with in the list.
- `StreamedLikeWhole` - the two ways a client can be answered look at different
  events, so the invariant `AnswerInv` says of each event what has become of it:
  each delta is forwarded or on its way (`PartsCounted`), each item that is due
  with the terminal event too, once (`WholesCounted`), each call announced has
  begun or is the one in hand (`CallsBegun`), and the finish reason is on its way
  or was the first (`ReasonKnown`). `AnswerKnown` says what a terminal event of
  a complete stream implies about the items; `EndKnown`, that a stream which
  ends has had one and nothing is on its way, where all of the above meet.

`CredentialsProofs`.

- `CredentialsTyped` - the types are inductive as they stand, including that the
  port belongs to a login that is offered or listening (`PortKept`: no other
  worker's step takes it away). It is proved by kinds of step, each against the
  few variables it changes.
- `RefreshTokensBelong` - `RefreshTokenBelongs` names four copies, but each was
  copied from somewhere else: from what a worker was about to write, or from
  what the watcher had read. The strengthening `Whole` is the same of every
  copy there is, in `work` and `watcher` too. And it holds only while there is
  no login in the dashboard, a condition a step can change: `LoginsListen` says
  that only the steps of such a login publish tokens without their refresh
  token. `WholeInv` is the two together, `Whole` under its condition.

`StreamPipelineProofs`. The properties compare the two ends of a path that has
up to five goroutines and four buffers on it, any of which may have stopped.
`PipelineInv` says what is in between:

- `Faithful` - an item, wherever it is, is what its goroutine makes of the line
  it names, and that line has been scanned. An item without a line is one its
  goroutine may make up (`Unnumbered`).
- `Flow(took, gave)` - two cursors per goroutine: the last line it took, the last
  it sent. What it holds lies between its own two, what its channel holds
  between what it gave and what its receiver took, what is written between 0
  and what the handler gave. `Carries(buf, lines, lo, hi)` is
  "between": of the lines in the window, those the goroutine passes on are in
  the buffer, in order, once each and no others. A goroutine that is leaving,
  whose receiver is gone, may drop what it holds (`Abandoned`).
  Windows only ever move by a head or a tail, so no property of a concatenation
  is needed, and `ContentInOrder` is the window of `written`. The cursors
  are no variables of the model: the invariant says that some exist, and each
  step names the next ones.
- `Facts(took)` - why each goroutine may be gone. The reader's error is the last
  thing it sends (`ReaderFacts`); a parser that is gone has an error under way,
  has seen the whole message or, for the Responses API, all lines
  (`ParserFacts`); the guard's `saw` is what it took says (`GuardFacts`); an
  adapter that returns without error has passed on a whole message
  (`AdapterFacts`). An error under way towards a handler that still listens has
  its excuse: the client left, the failure came before the end, or upstream fell
  silent (`Errors`, `Excused`). A handler that is gone has the excuse or the
  `stop`, and with the `stop` the whole content is written (`HandlerFacts`).
  That the end of a channel means the end of the message is the step that needs
  all of it: the cursors of neighbours meet when a channel is empty and its
  sender gone (`ParserCaughtUp`, `GuardCaughtUp`).

`PipelineInv` is proved for any `Scripts`, that is, whatever upstream sends, and
any capacities and timeout. The monitor's part is only that it may close the
body at any time after `timedOut`; that it does so is liveness.

`ModelRoutingProofs`. All seven properties of the run, from four invariants on
top of the types (`RoutingTyped`):

- `TypeInv` adds that what was decided is valid until it is published
  (`NextValid`): a reordering that finds nothing publishes nothing, a save is
  validated first.
- `CatalogProved` - the URL a fetch was given is still the catalog's, or it was
  crossed.
- `ExplicitListKept` - a discovery checks that there are no models in one step
  and publishes in another. `ExplicitInv`: only the start's fetch discovers, and
  between the two the handler has no models and no operation is under way, unless
  changes have overlapped. That exception is no more than the code deserves:
  `explicit_overwritten` shows the list of a save in between replaced.
- `CopiesProved` - `AloneInv`: without overlap one actor changes the
  configuration at a time, and what it has changed so far is what it still has
  to copy.
- `AskedTried`, `UpstreamIsItsOwn`, `OrderFollowed` - `AskedInv` follows what was
  resolved from load to load. Its premise speaks of all configurations in force so
  far, so a new one can only make it false, and the handler's is one of them.
  `HeadInv` follows, from load to load, why a model may come to head the list
  (`Resolvable`, `CameToDefault`); its reasons are configurations that were in
  force, so a new one takes none away (`HeadsGrow`). The rest is about the list:
  `ListIsFirstOf` (whichever branch `buildPreferenceList` takes, the list is the
  resolved model, then `Others` of it, then models discovered) and `ListIsGood`.

The lemmas about `Kept` (its elements, their order and difference; filtering
twice; a list without its head) are inductions over sequences. An induction
theorem that takes a predicate cannot be used, so `EveryNumber` and
`EverySequence` take a set: one that has `<<>>` and with a sequence each one that
is longer by an element is all of `Seq(T)`. `EveryNumber` rests on the
well-foundedness of `<`, which the library proves without a predicate.

Only model-checked: the liveness properties (`EventuallyAnswered`, `RequestEnds`,
`EndsOrStranded`, `Settles`, `LoginResolves`), which need fairness and ENABLED and
are outside what the proof system handles. No module uses a RECURSIVE operator.

## 12. Where the code and its documentation part

Each of the first five is a run whose counterexample TLC finds.

- `context_disables` (`ErrorsBacked`): a request whose context ends (the client
  leaves, or `RequestTimeout` passes) handles the cancelled call as a transport
  error, disables the model for everyone, goes on to the next, whose call is
  cancelled at once, and so disables every model of the list.
- `codex_late` (`LateArgumentsInPlace`): of two announced calls whose arguments
  come with the terminal event, the first one's block was closed by the start of
  the second, and its arguments are written to the closed block.
- `login_kept` (`LoginKept`): a login on the command line saves its tokens in the
  file; a save in the dashboard then writes the tokens main has had since its
  start.
- `save_wipes_models` (`SelectionPreserved`): the models discovered at a start
  are in the handler's configuration only. A save copies main's, which has
  none, and requests get 503 until a restart.
- `explicit_overwritten` (`ExplicitNeverChanged`): a discovery that has found no
  models (`handlers.go:205`) publishes what it discovered (line 221) over the models
  of a save through the API in between. Main and the file keep the explicit list,
  requests follow the other one. "Explicit user model lists are never changed"
  (`handlers.go:202`).

**The model a client names.** The repository says that the list is walked as it is:
"The configured `models` preference order is walked as-is regardless of what model
name the client wrote in Claude Code", but for routing by kind
(`handlers.go:1047-1053`); "The proxy always walks it in priority order — the model
name you type in Claude Code is ignored and triggers the same chain"
(`src/README.md:459-461`); "The model name you type in Claude Code (e.g. any custom
name) is ignored — the proxy always walks the effective model order"
(`src/README.md:519`). The code does not ignore the name.
`HandleMessages` resolves it (`handlers.go:551-576`, whose own comment says "try it
first"): one that is in the list, or any name if `allow_unlisted_models` is set,
becomes the primary model, and `buildPreferenceList` puts that first, then the list.
Only another name leads to the list as it is. With the list `a, c`, a request for
`c` tries `c, a`. It needs no interleaving, so there is no run for it:
`FollowsAnOrder`, checked and proved, states what the code does, and its `MayHead`
names the model asked for as the first reason to head the list.

Others were seen while modelling and have no run. They are what the models do,
and what their properties leave out.

*Fallback.* Only a success clears the count of 429s, so "consecutive" 429s may
have other errors between them. An expired entry of a model hides its upstream's
rate limit from `allModelsDisabledByRateLimit`, and the client sees 502. A loop
that ends by skipping its last models drops the Retry-After it has collected.
The dashboard shows a model green whose upstream is disabled as a whole. A probe
at the start that meets an account-wide limit disables nothing, though
`main.go:301-303` says upstreams are pre-disabled.

*Streams.* Parallel calls of a Chat Completions stream have late deltas written
to a closed block. Content after a finish reason opens a block behind
`message_delta`. Usage after the finish reason, its place in a Chat Completions
stream, never reaches the client. Codex may repeat its terminal event, and the
comment at `convert/stream.go:75-79` says completion is deferred until the channel
closes, but `message_delta` is not: stop reason and usage are those of the first one,
and a later one's are lost (`UsageReported` excepts them). Deltas without `item_id`:
a text's are forwarded but not noted (`codex/stream.go:250`, 257), so a terminal event
that lists the text sends it again, where the comment at lines 184-185 says it "does
not duplicate it"; arguments' are dropped (lines 280-282), and reach the client only if
the terminal event lists them (`StreamedAsWhole` names the ids it needs for either).
Arguments of a call that was never announced
go to a block that never begins. Two terminal events that both list an item
repeat its text if it was not streamed. A terminal event with status "failed" is
a success when streaming and `ErrFailed` when not. A plain request accepts a
body that was cut before its terminal event. Goroutines that send without a
`select` stay behind a full channel when the handler has left, although
`handlers_stream.go:268-269` counts on them to finish. The idle timeout also fires
when the client, not the upstream, is slow.

*Credentials.* A login in the dashboard does not replace the refresh token, so
the next refresh brings back the account of before. A refresh after a login
gives the client a token and an account that differ until the watcher's next
look. A login or a save that runs at the same time as another writer of the file
loses one of the two. A `SaveTokens` that reads a torn file drops the settings,
and a torn file keeps the proxy from starting. Of two concurrent logins the one
that fails last shows "error" after the other has completed.

*Routing.* Nine loads of the configuration may see nine configurations
(`AskedIsTried`, `OwnUpstream` and `FollowsAnOrder` say what still holds): if
the routing model is removed between its check and its use, the request goes on
with an empty model name and is refused. A model listed with Codex is left out
without a client, and then tried at OpenCode Zen if its catalog has one of that
name: discovered models are compared with the list that is left. Every
save empties the catalog, which only listings fetch again. A save resets
`OnlyPreferredModels`, which `applyFileConfig` does not know. A fetch that crosses a
reconfiguration leaves the models of the old URL. A reordering that was
persisted is overridden at the next start by models from the environment.

The jump after a conversion error rests on the comment that all models of an
upstream share a converter. In zen some models use the Responses API; the two
converters refuse the same content blocks and differ only in an unknown role,
so the model takes the comment at its word.

## 13. Plan

What is left, in this order:

1. Startup probes, and the Codex models a start discovers.

## 14. Not modelled

Message conversion (field by field, no state), the parsing of flags,
environment and YAML (sequential; what wins over what is `Loaded`), the pages of
the dashboard and the wizard of the command line (I/O; their callbacks are in
the models), server lifecycle and middleware (thin wrappers of net/http) and
logging. Their outcomes appear where they matter: a conversion failure is the
answer `invalid`, a published configuration is `PublishConfig`, a dashboard
reset is `Reset`.

Left out of what is modelled: `DEFAULT_MODEL` and the `CODEX_*` variables, the
models of Codex that a start discovers, and the probes before the server starts,
which run alone.
