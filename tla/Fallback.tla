------------------------------ MODULE Fallback ------------------------------
(***************************************************************************)
(* The request path of POST /v1/messages: HandleMessages, handleNonStream  *)
(* and handleStream of internal/proxy, as several request goroutines over  *)
(* one shared CircuitBreaker.                                              *)
(*                                                                         *)
(* A request walks its preference list.  HandleMessages first drops the    *)
(* models the breaker disables; the fallback loop then checks each of the  *)
(* others once more, calls its provider, and on most failures goes on to   *)
(* the next.  Each access to the breaker is a step of its own, since every *)
(* other goroutine may run between two of them; what a goroutine does with *)
(* its own variables belongs to the step that leads to it.                 *)
(*                                                                         *)
(* What the upstream sends is chosen freely among Answers.  The history    *)
(* variables record what the upstreams were asked and have answered; the   *)
(* code does not keep them and no guard reads them.                        *)
(***************************************************************************)
EXTENDS CircuitBreaker, Sequences

CONSTANTS
    Requests,         \* one handler goroutine each
    PreferenceLists,  \* what buildPreferenceList may return
    Modes,            \* values of msgReq.Stream
    Answers,          \* what an upstream call may come to (subset of AllAnswers)
    RetryAfters,      \* values a Retry-After header may have
    Registries,       \* sets of upstreams the provider registry may hold
    Disturbances      \* subset of {"reset", "context", "config", "router"}

AllAnswers ==
    { "invalid",      \* Invoke: ErrInvalidRequest, the request cannot be encoded
      "marshal",      \* Invoke: ErrMarshal
      "transport",    \* Invoke: any other error
      "readError",    \* the body breaks off
      "limited",      \* 429
      "account",      \* 429 with usage_limit_reached
      "overloaded",   \* 502, 503, 504
      "gone",         \* 4xx whose body says the model does not exist
      "rejected",     \* any other status from 400 on
      "ok",           \* success (an SSE stream if one was asked for)
      "plain",        \* a stream was asked for, 200 with a body that parses
      "garbled" }     \* a stream was asked for, 200 with one that does not

NoRetryAfter == 0
NoSpec == <<"none", "none">>

ASSUME ListsAssumption ==
    \A list \in PreferenceLists :
        /\ list \in Seq(Specs) /\ list # <<>>
        /\ \A i, j \in 1..Len(list) : list[i] = list[j] => i = j
ASSUME AnswersAssumption == Answers \subseteq AllAnswers
ASSUME RetryAfterAssumption == RetryAfters \subseteq Nat \ {NoRetryAfter}
ASSUME ModesAssumption == Modes \subseteq BOOLEAN
ASSUME RegistriesAssumption == Registries \subseteq SUBSET Upstreams
ASSUME CallersAssumption == Callers = Requests
ASSUME DisturbancesAssumption ==   \* a call of an ended context always fails
    "context" \in Disturbances => "transport" \in Answers

VARIABLES
    req,        \* the local state of each request goroutine
    registered, \* the upstreams the published registry has a provider for
    calls,      \* history: per request, the models called so far, in order
    evidence,   \* history: what each model's upstream has answered so far
    cutoff      \* history: per request, when an account limit it met ends

historyVars == <<calls, evidence, cutoff>>
fallbackVars == <<breakerVars, req, registered, historyVars>>

Places == {"idle", "filterUpstream", "filterModel", "loopUpstream", "loopModel",
           "waiting", "counted", "parse", "streaming", "exhausted", "done"}
Fates == {"untouched", "disabled", "noProvider", "jumped", "called"}
ReplyKinds == {"none",            \* nothing written yet
               "served",          \* 200
               "rateLimited",     \* 429
               "upstreamError",   \* the status of the last upstream
               "conversionError", \* 400
               "gatewayError",    \* 502, every model failed or was disabled
               "aborted"}         \* 500 or 502 at once, without trying further

Replies == [kind : ReplyKinds, spec : Specs \cup {NoSpec}, retryAfter : Nat]
NoReply == [kind |-> "none", spec |-> NoSpec, retryAfter |-> NoRetryAfter]

RequestStates ==
    [ pc : Places,
      stream : BOOLEAN,
      list : Seq(Specs),       \* preferenceModels
      usable : Seq(Specs),     \* fallbackModels
      pos : Nat,               \* index into list while filtering, then into usable
      retryAfter : Nat,        \* maxRetryAfter
      ctxDone : BOOLEAN,       \* the request context has ended
      doomed : BOOLEAN,        \* it had when the current call began
      fate : [Specs -> Fates], \* what became of each model of the list
      reply : Replies ]

Filtering == {"filterUpstream", "filterModel"}
Looping == {"loopUpstream", "loopModel", "waiting", "counted", "parse"}

\* The list a request is about to index has an element there.
Placed(q) ==
    /\ q.pc = "idle" => q.pos = 1
    /\ q.pc \in Filtering => q.pos \in 1..Len(q.list)
    /\ q.pc \in Looping => q.pos \in 1..Len(q.usable)

\* Every variable has its type, and no request indexes its list out of range.
FallbackTypeOK ==
    /\ BreakerTypeOK
    /\ req \in [Requests -> RequestStates]
    /\ \A r \in Requests : Placed(req[r])
    /\ registered \in Registries
    /\ calls \in [Requests -> Seq(Specs)]
    /\ evidence \in [Specs -> SUBSET {"failed", "gone", "limited", "account"}]
    /\ cutoff \in [Requests -> [Upstreams -> Nat]]

-----------------------------------------------------------------------------
(* A request's own variables: q is the state of one request. *)

Wildcard(spec) == <<spec[1], AnyModel>>

Current(q) == q.usable[q.pos]

\* Mutant: the loop treats the last model but one as the last.
IsLastTooEarly(q) == q.pos + 1 >= Len(q.usable)

\* Mutant: "i <= len(fallbackModels)-1" lets the loop run off its list.
IsLastTooLate(q) == q.pos > Len(q.usable)

IsLast(q) == q.pos = Len(q.usable)

Goto(q, place) == [q EXCEPT !.pc = place]
Mark(q, spec, fate) == [q EXCEPT !.fate[spec] = fate]

\* The end of one round of the filter in HandleMessages.
NextListed(q) ==
    IF q.pos < Len(q.list)
      THEN [q EXCEPT !.pos = @ + 1, !.pc = "filterUpstream"]
      ELSE IF q.usable = <<>> THEN Goto(q, "exhausted")
                              ELSE [q EXCEPT !.pos = 1, !.pc = "loopUpstream"]

\* Mutant: an indexed loop that forgets to advance its index.
ContinueInPlace(q) == Goto(q, IF IsLast(q) THEN "exhausted" ELSE "loopUpstream")

\* "continue" of the fallback loop; after the last model the loop ends.
Continue(q) ==
    [q EXCEPT !.pos = @ + 1, !.pc = IF IsLast(q) THEN "exhausted" ELSE "loopUpstream"]

Respond(q, kind) == [q EXCEPT !.pc = "done", !.reply.kind = kind]

Serve(q, place) ==
    [q EXCEPT !.pc = place, !.reply.kind = "served", !.reply.spec = Current(q)]

\* NewRateLimitResponse with the Retry-After header, if any was seen.
RespondRateLimited(q) ==
    [q EXCEPT !.pc = "done", !.reply.kind = "rateLimited", !.reply.retryAfter = q.retryAfter]

\* "if i < len(fallbackModels)-1 { continue }", else the last error is the answer.
ContinueOr(q, response) == IF IsLast(q) THEN response ELSE Continue(q)

\* Mutant: the search starts over at the head of the list.
OtherUpstreamAnywhere(q) ==
    {j \in 1..Len(q.usable) : q.usable[j][1] # Current(q)[1]}

\* The positions after the current one whose upstream differs from its own.
OtherUpstreamAhead(q) ==
    {j \in q.pos + 1 .. Len(q.usable) : q.usable[j][1] # Current(q)[1]}

\* The loop jumps to the first of them, past models that cannot encode the
\* request either.
JumpTo(q, next) ==
    [q EXCEPT !.pos = next, !.pc = "loopUpstream",
              !.fate = [s \in Specs |-> IF \E j \in q.pos + 1 .. next - 1 : q.usable[j] = s
                                          THEN "jumped" ELSE q.fate[s]]]

\* After a conversion error: the possible next states (there is one).
AfterInvalid(q) ==
    LET ahead == OtherUpstreamAhead(q) IN
    IF ahead = {}
      THEN {Respond(JumpTo(q, Len(q.usable) + 1), "conversionError")}
      ELSE {JumpTo(q, j) : j \in {i \in ahead : \A k \in ahead : i <= k}}

-----------------------------------------------------------------------------
(* HandleMessages: the preference list and its filter. *)

Step(r, q) == req' = [req EXCEPT ![r] = q]

NewRequest ==
    [ pc |-> "idle", stream |-> FALSE, list |-> <<>>, usable |-> <<>>, pos |-> 1,
      retryAfter |-> NoRetryAfter, ctxDone |-> FALSE, doomed |-> FALSE,
      fate |-> [s \in Specs |-> "untouched"], reply |-> NoReply ]

Arrive(r) ==
    /\ req[r].pc = "idle"
    /\ \E list \in PreferenceLists, stream \in Modes :
          Step(r, [req[r] EXCEPT !.pc = "filterUpstream", !.list = list, !.stream = stream])
    /\ UNCHANGED <<breakerVars, registered, historyVars>>

\* isModelUpstreamDisabled is two calls of isModelDisabled; the second only
\* happens when the first says no.
FilterUpstream(r) ==
    LET q == req[r]
        spec == q.list[q.pos]
    IN
    /\ q.pc = "filterUpstream"
    /\ IsModelDisabled(Wildcard(spec))
    /\ Step(r, IF Disabled(Wildcard(spec)) THEN NextListed(Mark(q, spec, "disabled"))
                                           ELSE Goto(q, "filterModel"))
    /\ UNCHANGED <<registered, historyVars>>

FilterModel(r) ==
    LET q == req[r]
        spec == q.list[q.pos]
    IN
    /\ q.pc = "filterModel"
    /\ IsModelDisabled(spec)
    /\ Step(r, NextListed(IF Disabled(spec) THEN Mark(q, spec, "disabled")
                                            ELSE [q EXCEPT !.usable = Append(@, spec)]))
    /\ UNCHANGED <<registered, historyVars>>

-----------------------------------------------------------------------------
(* handleNonStream and handleStream: the head of the fallback loop. *)

LoopUpstream(r) ==
    LET q == req[r]
        spec == Current(q)
    IN
    /\ q.pc = "loopUpstream"
    /\ IsModelDisabled(Wildcard(spec))
    /\ Step(r, IF Disabled(Wildcard(spec)) THEN Continue(Mark(q, spec, "disabled"))
                                           ELSE Goto(q, "loopModel"))
    /\ UNCHANGED <<registered, historyVars>>

\* The second check, the provider lookup and the start of the call.
LoopModel(r) ==
    LET q == req[r]
        spec == Current(q)
    IN
    /\ q.pc = "loopModel"
    /\ IsModelDisabled(spec)
    /\ \/ /\ Disabled(spec)
          /\ Step(r, Continue(Mark(q, spec, "disabled")))
          /\ UNCHANGED calls
       \/ /\ ~Disabled(spec)
          /\ spec[1] \notin registered
          /\ Step(r, Continue(Mark(q, spec, "noProvider")))
          /\ UNCHANGED calls
       \/ /\ ~Disabled(spec)
          /\ spec[1] \in registered
          /\ Step(r, [Mark(q, spec, "called") EXCEPT !.pc = "waiting", !.doomed = q.ctxDone])
          /\ calls' = [calls EXCEPT ![r] = Append(@, spec)]
    /\ UNCHANGED <<registered, evidence, cutoff>>

-----------------------------------------------------------------------------
(* What the call comes to. *)

\* A call that began after the context had ended gets no answer.
Receives(r, answer) ==
    /\ req[r].pc = "waiting"
    /\ answer \in Answers
    /\ req[r].doomed => answer \in {"invalid", "marshal", "transport"}

Learn(spec, what) == evidence' = [evidence EXCEPT ![spec] = @ \cup {what}]

CannotEncode(r) ==
    /\ Receives(r, "invalid")
    /\ \E q \in AfterInvalid(req[r]) : Step(r, q)
    /\ UNCHANGED <<breakerVars, registered, historyVars>>

CannotMarshal(r) ==
    /\ Receives(r, "marshal")
    /\ Step(r, Respond(req[r], "aborted"))
    /\ UNCHANGED <<breakerVars, registered, historyVars>>

\* An ended context (the client left, or RequestTimeout of a non-stream
\* request passed) fails the call like a connection failure does.
TransportError(r) ==
    LET spec == Current(req[r]) IN
    /\ Receives(r, "transport")
    /\ DisableModelUpstream(spec, "error")
    /\ Step(r, Continue(req[r]))
    /\ IF req[r].ctxDone THEN UNCHANGED evidence ELSE Learn(spec, "failed")
    /\ UNCHANGED <<registered, calls, cutoff>>

\* The body breaks off: of any answer to a plain request, of a 200 that is not
\* SSE to a streaming one (handleStream ignores it everywhere else).
BodyBreaksOff(r) ==
    LET q == req[r]
        spec == Current(q)
    IN
    /\ Receives(r, "readError")
    /\ IF q.stream
          THEN /\ DisableModelUpstream(spec, "error")
               /\ Step(r, Continue(q))
          ELSE /\ UNCHANGED breakerVars
               /\ Step(r, Respond(q, "aborted"))
    /\ IF q.ctxDone THEN UNCHANGED evidence ELSE Learn(spec, "failed")
    /\ UNCHANGED <<registered, calls, cutoff>>

WithRetryAfter(q, seconds) ==
    [q EXCEPT !.retryAfter = IF seconds > @ THEN seconds ELSE @]

\* 429, first critical section of trackRateLimit.
RateLimitCounted(r) ==
    LET spec == Current(req[r]) IN
    /\ Receives(r, "limited")
    /\ rateLimitRetries[spec] < MaxRetries
    /\ CountRateLimit(r, spec)
    /\ \E seconds \in RetryAfters \cup {NoRetryAfter} :
          Step(r, Goto(WithRetryAfter(req[r], seconds), "counted"))
    /\ Learn(spec, "limited")
    /\ UNCHANGED <<registered, calls, cutoff>>

\* Second critical section, then on to the next model or the 429 answer.
RateLimitApplied(r) ==
    /\ req[r].pc = "counted"
    /\ DisableCounted(r)
    /\ Step(r, ContinueOr(req[r], RespondRateLimited(req[r])))
    /\ UNCHANGED <<registered, historyVars>>

\* Mutant: the account limit is booked on the model, not on its upstream.
AccountLimitOfModel(r) ==
    LET spec == Current(req[r]) IN
    /\ Receives(r, "account")
    /\ DisableModelUpstream(spec, "rate_limit")
    /\ \E seconds \in RetryAfters \cup {NoRetryAfter} :
          LET q == WithRetryAfter(req[r], seconds) IN
          Step(r, ContinueOr(q, RespondRateLimited(q)))
    /\ Learn(spec, "account")
    /\ cutoff' = [cutoff EXCEPT ![r][spec[1]] = now + RateLimitCooldown]
    /\ UNCHANGED <<registered, calls>>

\* 429 with usage_limit_reached.
AccountLimitReached(r) ==
    LET spec == Current(req[r]) IN
    /\ Receives(r, "account")
    /\ TrackGlobalRateLimit(spec[1])
    /\ \E seconds \in RetryAfters \cup {NoRetryAfter} :
          LET q == WithRetryAfter(req[r], seconds) IN
          Step(r, ContinueOr(q, RespondRateLimited(q)))
    /\ Learn(spec, "account")
    /\ cutoff' = [cutoff EXCEPT ![r][spec[1]] = now + RateLimitCooldown]
    /\ UNCHANGED <<registered, calls>>

\* 502, 503, 504.
Overloaded(r) ==
    LET spec == Current(req[r]) IN
    /\ Receives(r, "overloaded")
    /\ DisableModelUpstream(spec, "error")
    /\ Step(r, ContinueOr(req[r], Respond(req[r], "upstreamError")))
    /\ Learn(spec, "failed")
    /\ UNCHANGED <<registered, calls, cutoff>>

\* A 4xx whose body says the model does not exist.
ModelGone(r) ==
    LET spec == Current(req[r]) IN
    /\ Receives(r, "gone")
    /\ DisableModelUpstream(spec, "unavailable")
    /\ Step(r, ContinueOr(req[r], Respond(req[r], "upstreamError")))
    /\ Learn(spec, "gone")
    /\ UNCHANGED <<registered, calls, cutoff>>

\* Mutant: the body of a 5xx may mark the model gone as well.
RejectedForGood(r) ==
    /\ Receives(r, "rejected")
    /\ DisableModelUpstream(Current(req[r]), "unavailable")
    /\ Step(r, ContinueOr(req[r], Respond(req[r], "upstreamError")))
    /\ UNCHANGED <<registered, calls, evidence, cutoff>>

\* Any other 4xx or 5xx leaves the model enabled.
Rejected(r) ==
    /\ Receives(r, "rejected")
    /\ Step(r, ContinueOr(req[r], Respond(req[r], "upstreamError")))
    /\ UNCHANGED <<breakerVars, registered, calls, evidence, cutoff>>

\* Mutant: a success re-enables the model as well.
SucceededAndEnabled(r) ==
    LET spec == Current(req[r]) IN
    /\ Receives(r, "ok")
    /\ rateLimitRetries' = [rateLimitRetries EXCEPT ![spec] = 0]
    /\ disabledUntil' = [disabledUntil EXCEPT ![spec] = NoEntry]
    /\ UNCHANGED <<now, configured, counted>>
    /\ Step(r, IF req[r].stream THEN Serve(req[r], "streaming") ELSE Goto(req[r], "parse"))
    /\ UNCHANGED <<registered, calls, evidence, cutoff>>

\* Success: a streaming request is answered from here on, a plain one still
\* has to parse the body.
Succeeded(r) ==
    LET spec == Current(req[r]) IN
    /\ Receives(r, "ok")
    /\ ClearRateLimitRetry(spec)
    /\ Step(r, IF req[r].stream THEN Serve(req[r], "streaming") ELSE Goto(req[r], "parse"))
    /\ UNCHANGED <<registered, calls, evidence, cutoff>>

\* ParseResponse: a response, ErrNoContent, or any other decoding error.
Parsed(r) ==
    LET q == req[r] IN
    /\ q.pc = "parse"
    /\ \/ Step(r, Serve(q, "done"))
       \/ Step(r, Continue(q))
       \/ Step(r, Respond(q, "aborted"))
    /\ UNCHANGED <<breakerVars, registered, historyVars>>

\* ErrFailed: the response reports a failure of the model.
ParsedFailure(r) ==
    LET spec == Current(req[r]) IN
    /\ req[r].pc = "parse"
    /\ DisableModelUpstream(spec, "error")
    /\ Step(r, Continue(req[r]))
    /\ Learn(spec, "failed")
    /\ UNCHANGED <<registered, calls, cutoff>>

\* A streaming request is answered 200 without SSE.  A body that parses is
\* the response, if the provider, looked up again, is still there.
AnsweredPlainly(r) ==
    LET q == req[r]
        spec == Current(q)
    IN
    /\ q.stream
    /\ Receives(r, "plain")
    /\ spec[1] \in registered
    /\ ClearRateLimitRetry(spec)
    /\ Step(r, Serve(q, "done"))
    /\ UNCHANGED <<registered, calls, evidence, cutoff>>

\* The body does not parse, or there is no provider left to parse it.
AnsweredGarbage(r) ==
    LET q == req[r]
        spec == Current(q)
    IN
    /\ q.stream
    /\ \/ Receives(r, "garbled")
       \/ Receives(r, "plain") /\ spec[1] \notin registered
    /\ DisableModelUpstream(spec, "error")
    /\ Step(r, Continue(q))
    /\ Learn(spec, "failed")
    /\ UNCHANGED <<registered, calls, cutoff>>

\* The stream converter returns, with or without an error.
StreamEnds(r) ==
    /\ req[r].pc = "streaming"
    /\ Step(r, Goto(req[r], "done"))
    /\ UNCHANGED <<breakerVars, registered, historyVars>>

-----------------------------------------------------------------------------
(* writePreferenceExhausted. *)

ElementsOf(list) == {list[i] : i \in 1..Len(list)}

\* The list it is given: all of it when the filter left nothing.
ReportedList(q) == IF q.usable = <<>> THEN q.list ELSE q.usable

Exhausted(r) ==
    LET q == req[r] IN
    /\ q.pc = "exhausted"
    /\ Step(r, Respond(q, IF AllDisabledByRateLimit(ElementsOf(ReportedList(q)))
                            THEN "rateLimited" ELSE "gatewayError"))
    /\ UNCHANGED <<breakerVars, registered, historyVars>>

-----------------------------------------------------------------------------
(* What happens around the requests. *)

TimePasses == Tick /\ UNCHANGED <<req, registered, historyVars>>

\* The dashboard resets the breaker.
Reset ==
    /\ "reset" \in Disturbances
    /\ ResetCircuitBreakers
    /\ cutoff' = [r \in Requests |-> [u \in Upstreams |-> 0]]
    /\ UNCHANGED <<req, registered, calls, evidence>>

ConfigChanges ==
    /\ "config" \in Disturbances
    /\ \E models \in ConfiguredLists : PublishConfig(models)
    /\ UNCHANGED <<req, registered, historyVars>>

\* RebuildRouter and the config watcher publish another registry.
RouterReplaced ==
    /\ "router" \in Disturbances
    /\ registered' \in Registries
    /\ UNCHANGED <<breakerVars, req, historyVars>>

\* The client leaves, or RequestTimeout of a non-stream request passes.
ContextEnds(r) ==
    /\ "context" \in Disturbances
    /\ req[r].pc \notin {"idle", "done"}
    /\ ~req[r].ctxDone
    /\ Step(r, [req[r] EXCEPT !.ctxDone = TRUE])
    /\ UNCHANGED <<breakerVars, registered, historyVars>>

AllAnswered ==
    /\ \A r \in Requests : req[r].pc = "done"
    /\ UNCHANGED fallbackVars

-----------------------------------------------------------------------------

FallbackInit ==
    /\ BreakerInit
    /\ req = [r \in Requests |-> NewRequest]
    /\ registered \in Registries
    /\ calls = [r \in Requests |-> <<>>]
    /\ evidence = [spec \in Specs |-> {}]
    /\ cutoff = [r \in Requests |-> [u \in Upstreams |-> 0]]

AnswerStep(r) ==
    \/ CannotEncode(r) \/ CannotMarshal(r) \/ TransportError(r) \/ BodyBreaksOff(r)
    \/ RateLimitCounted(r) \/ AccountLimitReached(r) \/ Overloaded(r)
    \/ ModelGone(r) \/ Rejected(r)
    \/ Succeeded(r) \/ AnsweredPlainly(r) \/ AnsweredGarbage(r)

\* Every step the request goroutine takes once it runs.
RequestStep(r) ==
    \/ FilterUpstream(r) \/ FilterModel(r)
    \/ LoopUpstream(r) \/ LoopModel(r)
    \/ AnswerStep(r)
    \/ RateLimitApplied(r) \/ Parsed(r) \/ ParsedFailure(r)
    \/ StreamEnds(r) \/ Exhausted(r)

FallbackNext ==
    \/ \E r \in Requests : Arrive(r) \/ RequestStep(r) \/ ContextEnds(r)
    \/ TimePasses \/ Reset \/ ConfigChanges \/ RouterReplaced
    \/ AllAnswered

FallbackSpec == FallbackInit /\ [][FallbackNext]_fallbackVars

\* A request that has arrived keeps running: the scheduler runs its goroutine,
\* both transports bound the wait for the response headers
\* (ResponseHeaderTimeout), a non-stream request bounds the rest of the call
\* (RequestTimeout), and a stream is cut after its idle timeout.  Nothing bounds
\* the read of an error body by a streaming request; that upstreams end those
\* bodies is assumed here.
FairFallbackSpec ==
    /\ FallbackSpec
    /\ \A r \in Requests : WF_fallbackVars(RequestStep(r))

-----------------------------------------------------------------------------
(* Properties *)

GaveUp == {"rateLimited", "upstreamError", "conversionError", "gatewayError"}

\* A request is only refused after every model of its preference list has been
\* considered: called, found disabled, without provider, or jumped over because
\* another model of the same upstream could not encode the request
\* (handlers.go:622-886, handlers_stream.go:25-295).
NothingUntried ==
    \A r \in Requests :
        LET q == req[r] IN
        q.pc = "done" /\ q.reply.kind \in GaveUp =>
            \A s \in ElementsOf(q.list) :
                /\ q.fate[s] # "untouched"
                /\ q.fate[s] = "jumped" =>
                      \E called \in ElementsOf(calls[r]) : called[1] = s[1]

\* No model is disabled on hearsay: it is hidden for good only after its
\* upstream said that it does not exist, rate limited only after a 429 of its
\* own, and its upstream as a whole only after an account limit one of its
\* models met (handlers.go:411-434, 798-803).
EvidenceBacked ==
    /\ \A s \in Specs :
          /\ disabledUntil[s].reason = "unavailable" => "gone" \in evidence[s]
          /\ RateLimited(disabledUntil[s]) => "limited" \in evidence[s]
    /\ \A u \in Upstreams :
          disabledUntil[<<u, AnyModel>>] # NoEntry =>
              \E m \in Models : "account" \in evidence[<<u, m>>]

\* "used for provider-wide quota errors where trying another model cannot help"
\* (handlers.go:398-399): until the cooldown of an account limit it has met
\* ends, or the breaker is reset, a request calls no model of that upstream.
CascadeStopped ==
    [][\A r \in Requests :
          calls'[r] # calls[r] =>
              cutoff[r][calls'[r][Len(calls'[r])][1]] <= now
      ]_fallbackVars

\* Every request that arrives is answered, whatever the upstreams answer and
\* whatever is reset, published or cancelled meanwhile.
EventuallyAnswered ==
    \A r \in Requests : req[r].pc = "filterUpstream" ~> req[r].pc = "done"

\* The contract with the client.  A reply counts from its header on.
Contract == INSTANCE MessagesContract WITH
    NoModel <- NoSpec,
    list <- [r \in Requests |-> req[r].list],
    reply <- [r \in Requests |-> [kind |-> req[r].reply.kind, spec |-> req[r].reply.spec]]

\* The models of a preference list are called in order, each at most once,
\* none after the answer, and a 200 is the answer of the model called last
\* (README.md:450).
ServesContract == Contract!ContractSpec

\* However the requests interleave, the breaker only ever moves by the calls
\* CircuitBreaker.tla describes: what is shown there holds here.
UsesBreaker == BreakerSpec

-----------------------------------------------------------------------------
(* What the repository says of the program and the code does not do. *)

\* "disabled after a transport error (5xx, connection failure)"
\* (handlers.go:103-104): a model is disabled for an error only after a call of
\* it has failed for a reason other than the end of the caller's own context.
ErrorsBacked ==
    \A s \in Specs : disabledUntil[s].reason = "error" => "failed" \in evidence[s]
=============================================================================
