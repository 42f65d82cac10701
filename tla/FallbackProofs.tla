--------------------------- MODULE FallbackProofs ---------------------------
(***************************************************************************)
(* Theorems about Fallback, for every set of requests, preference lists,   *)
(* answers and disturbances.                                               *)
(*                                                                         *)
(* A request that reads list[pos] or usable[pos] gets a model only if pos  *)
(* is a position of that list, so types and positions are proved together: *)
(* RequestInv.  With it every access to the breaker is a step of           *)
(* CircuitBreaker, whose theorems carry over.                              *)
(***************************************************************************)
EXTENDS Fallback, CircuitBreakerProofs, SequenceTheorems

\* A request whose local state has its type and whose position is in range.
GoodStates == {q \in RequestStates : Placed(q)}

\* All but those between the two checks of the loop head.
Settled == {q \in GoodStates : q.pc # "loopModel"}

\* Every request is in such a state (handlers.go:629-886, handlers_stream.go:25-295).
RequestInv == req \in [Requests -> GoodStates]

-----------------------------------------------------------------------------
(* The helpers on one request's variables stay within GoodStates. *)

\* A model is a key of the breaker, and so is the wildcard of its upstream.
LEMMA SpecsAreKeys ==
    ASSUME NEW spec \in Specs
    PROVE  spec \in Keys /\ Wildcard(spec) \in Keys /\ spec[1] \in Upstreams
  BY DEF Specs, Keys, Wildcard

\* What a request in the loop calls, and one in the filter checks, is a model.
LEMMA CurrentIsSpec ==
    ASSUME NEW q \in GoodStates
    PROVE  /\ q.pc \in Looping => Current(q) \in Specs
           /\ q.pc \in Filtering => q.list[q.pos] \in Specs
  BY ElementOfSeq DEF GoodStates, Settled, Placed, RequestStates, Current

\* "continue" lands on another element of the list or leaves the loop.
LEMMA ContinueGood ==
    ASSUME NEW q \in GoodStates, q.pc \in Looping
    PROVE  Continue(q) \in Settled
  <1>1. q.pos \in 1..Len(q.usable) /\ Len(q.usable) \in Nat
    BY LenProperties DEF GoodStates, Settled, Placed, RequestStates
  <1>2. Continue(q) \in RequestStates
    <2> DEFINE place == IF IsLast(q) THEN "exhausted" ELSE "loopUpstream"
    <2>1. q.pos + 1 \in Nat /\ place \in Places
      BY <1>1 DEF Places
    <2>2. [q EXCEPT !.pos = q.pos + 1, !.pc = place] \in RequestStates
      <3> HIDE DEF place
      <3> QED
        BY <2>1 DEF GoodStates, Settled, RequestStates
    <2>3. QED
      BY <2>2 DEF Continue
  <1>3. Placed(Continue(q)) /\ Continue(q).pc # "loopModel"
    BY <1>1 DEF Continue, IsLast, Placed, GoodStates, Settled, RequestStates, Filtering, Looping
  <1>4. QED
    BY <1>2, <1>3 DEF GoodStates, Settled

\* A refusal leaves the request in a good state.
LEMMA RespondGood ==
    ASSUME NEW q \in RequestStates, NEW kind \in ReplyKinds
    PROVE  Respond(q, kind) \in Settled
  BY DEF Respond, GoodStates, Settled, RequestStates, Places, Replies, Placed, Filtering, Looping

\* So does the 429 with its Retry-After.
LEMMA RespondRateLimitedGood ==
    ASSUME NEW q \in GoodStates
    PROVE  RespondRateLimited(q) \in Settled
  BY DEF RespondRateLimited, GoodStates, Settled, RequestStates, Places, Replies, ReplyKinds,
         Placed, Filtering, Looping

\* A 200 names a model of the list.
LEMMA ServeGood ==
    ASSUME NEW q \in GoodStates, q.pc \in Looping, NEW place \in {"streaming", "done"}
    PROVE  Serve(q, place) \in Settled
  <1>1. Current(q) \in Specs
    BY CurrentIsSpec
  <1>2. QED
    BY <1>1 DEF Serve, GoodStates, Settled, RequestStates, Places, Replies, ReplyKinds,
                Placed, Filtering, Looping

\* Noting what became of a model moves nothing else.
LEMMA MarkGood ==
    ASSUME NEW q \in GoodStates, NEW spec \in Specs, NEW fate \in Fates
    PROVE  /\ Mark(q, spec, fate) \in GoodStates
           /\ Mark(q, spec, fate).pc = q.pc
  BY DEF Mark, GoodStates, Settled, RequestStates, Placed

\* The two ways out of an error branch: the next model, or the last answer.
LEMMA ContinueOrGood ==
    ASSUME NEW q \in GoodStates, q.pc \in Looping, NEW response \in Settled
    PROVE  ContinueOr(q, response) \in Settled
  BY ContinueGood DEF ContinueOr

\* The jump of a conversion error (i = next - 1) lands inside the list.
LEMMA AfterInvalidGood ==
    ASSUME NEW q \in GoodStates
    PROVE  AfterInvalid(q) \subseteq Settled
  <1> DEFINE last == Len(q.usable)
             ahead == OtherUpstreamAhead(q)
  <1>1. last \in Nat /\ q.pos \in Nat /\ q \in RequestStates
    BY LenProperties DEF GoodStates, Settled, RequestStates
  <1>2. ASSUME NEW next \in Nat
        PROVE  /\ JumpTo(q, next) \in RequestStates
               /\ next \in 1..last => JumpTo(q, next) \in Settled
    BY <1>1, <1>2 DEF JumpTo, GoodStates, Settled, RequestStates, Places, Fates, Placed, Filtering
  <1>3. CASE ahead = {}
    BY <1>1, <1>2, <1>3, RespondGood DEF AfterInvalid, ReplyKinds
  <1>4. CASE ahead # {}
    <2>1. ahead \subseteq Nat /\ ahead \subseteq 1..last
      BY <1>1 DEF OtherUpstreamAhead
    <2>2. QED
      BY <1>2, <1>4, <2>1 DEF AfterInvalid
  <1>5. QED
    BY <1>3, <1>4

\* The filter moves to the next listed model, or hands a non-empty list to the loop.
LEMMA NextListedGood ==
    ASSUME NEW q \in RequestStates, q.pos \in 1..Len(q.list)
    PROVE  NextListed(q) \in Settled
  <1>1. Len(q.list) \in Nat /\ Len(q.usable) \in Nat /\ (q.usable # <<>> => 1 \in 1..Len(q.usable))
    BY LenProperties, EmptySeq DEF RequestStates
  <1>2. CASE q.pos < Len(q.list)
    <2> DEFINE n == [q EXCEPT !.pos = q.pos + 1, !.pc = "filterUpstream"]
    <2>1. NextListed(q) = n
      BY <1>2 DEF NextListed
    <2>2. q.pos + 1 \in Nat /\ q.pos + 1 \in 1..Len(q.list)
      BY <1>1, <1>2
    <2>3. n \in RequestStates /\ n.pc = "filterUpstream"
          /\ n.pos = q.pos + 1 /\ n.list = q.list
      BY <2>2 DEF RequestStates, Places
    <2>4. QED
      BY <2>1, <2>2, <2>3 DEF GoodStates, Settled, Placed, Looping
  <1>3. CASE ~(q.pos < Len(q.list)) /\ q.usable = <<>>
    BY <1>3 DEF NextListed, Goto, GoodStates, Settled, RequestStates, Places, Placed, Filtering, Looping
  <1>4. CASE ~(q.pos < Len(q.list)) /\ q.usable # <<>>
    BY <1>1, <1>4 DEF NextListed, GoodStates, Settled, RequestStates, Places, Placed, Filtering, Looping
  <1>5. QED
    BY <1>2, <1>3, <1>4

-----------------------------------------------------------------------------
(* Every step keeps RequestInv: one lemma for the filter and the loop head, *)
(* one for the answers, one for what follows them.                          *)

\* A step that puts one request into a good state keeps all of them good.
LEMMA StepGood ==
    ASSUME RequestInv, NEW r \in Requests, NEW q \in GoodStates, Step(r, q)
    PROVE  RequestInv'
  BY DEF RequestInv, Step

\* The same for a step that does not stop between the two checks.
LEMMA StepSettled ==
    ASSUME RequestInv, NEW r \in Requests, NEW q \in Settled, Step(r, q)
    PROVE  RequestInv' /\ req'[r].pc # "loopModel"
  BY DEF RequestInv, Step, Settled

\* The routing hands over a list the filter can index (handlers.go:624-630).
LEMMA ArriveGood ==
    ASSUME RequestInv, NEW r \in Requests, Arrive(r)
    PROVE  RequestInv'
  <1>1. PICK list \in PreferenceLists, stream \in Modes :
          Step(r, [req[r] EXCEPT !.pc = "filterUpstream", !.list = list, !.stream = stream])
    BY DEF Arrive
  <1>2. list \in Seq(Specs) /\ list # <<>> /\ stream \in BOOLEAN
    BY ListsAssumption, ModesAssumption
  <1>3. 1 \in 1..Len(list)
    BY <1>2, EmptySeq
  <1>4. req[r] \in RequestStates /\ req[r].pc = "idle"
    BY DEF RequestInv, GoodStates, Settled, Arrive
  <1>5. req[r].pos = 1
    BY <1>4 DEF RequestInv, GoodStates, Settled, Placed
  <1>6. QED
    BY <1>1, <1>2, <1>3, <1>4, <1>5, StepGood
       DEF GoodStates, Settled, RequestStates, Places, Placed, Filtering, Looping

\* The filter of HandleMessages (handlers.go:629-641).
LEMMA FilterGood ==
    ASSUME RequestInv, NEW r \in Requests, FilterUpstream(r) \/ FilterModel(r)
    PROVE  RequestInv' /\ req'[r].pc # "loopModel"
  <1> DEFINE q == req[r]
             spec == q.list[q.pos]
  <1>1. q \in GoodStates /\ q \in RequestStates /\ q.pc \in Filtering
    BY DEF RequestInv, GoodStates, Settled, FilterUpstream, FilterModel, Filtering
  <1>2. spec \in Specs /\ q.pos \in 1..Len(q.list)
    BY <1>1, CurrentIsSpec DEF GoodStates, Settled, Placed
  <1>3. /\ Mark(q, spec, "disabled") \in RequestStates
        /\ Mark(q, spec, "disabled").pos = q.pos
        /\ Mark(q, spec, "disabled").list = q.list
    BY <1>1, <1>2 DEF Mark, RequestStates, Fates
  <1>4. NextListed(Mark(q, spec, "disabled")) \in Settled
    BY <1>2, <1>3, NextListedGood
  <1>5. CASE FilterUpstream(r)
    <2>1. Goto(q, "filterModel") \in Settled
      BY <1>1, <1>2 DEF Goto, GoodStates, Settled, RequestStates, Places, Placed, Filtering, Looping
    <2>2. QED
      BY <1>4, <1>5, <2>1, StepSettled DEF FilterUpstream
  <1>6. CASE FilterModel(r)
    <2> DEFINE kept == [q EXCEPT !.usable = Append(q.usable, spec)]
    <2>1. Append(q.usable, spec) \in Seq(Specs)
      BY <1>1, <1>2, AppendProperties DEF RequestStates
    <2>2. kept \in RequestStates /\ kept.pos = q.pos /\ kept.list = q.list
      BY <1>1, <2>1 DEF RequestStates
    <2>3. NextListed(kept) \in Settled
      BY <1>2, <2>2, NextListedGood
    <2>4. QED
      BY <1>4, <1>6, <2>3, StepSettled DEF FilterModel
  <1>7. QED
    BY <1>5, <1>6

\* The two checks and the provider lookup at the head of the loop.
LEMMA LoopHeadGood ==
    ASSUME RequestInv, NEW r \in Requests, LoopUpstream(r) \/ LoopModel(r)
    PROVE  RequestInv' /\ (LoopModel(r) => req'[r].pc # "loopModel")
  <1> DEFINE q == req[r]
             spec == Current(q)
  <1>1. q \in GoodStates /\ q \in RequestStates /\ q.pc \in Looping
    BY DEF RequestInv, GoodStates, LoopUpstream, LoopModel, Looping
  <1>2. spec \in Specs
    BY <1>1, CurrentIsSpec
  <1>3. ASSUME NEW fate \in Fates
        PROVE  Continue(Mark(q, spec, fate)) \in Settled
    BY <1>1, <1>2, MarkGood, ContinueGood
  <1>4. CASE LoopUpstream(r)
    <2>1. Goto(q, "loopModel") \in GoodStates
      BY <1>1 DEF Goto, GoodStates, RequestStates, Places, Placed, Filtering, Looping
    <2>2. Continue(Mark(q, spec, "disabled")) \in GoodStates
      BY <1>3 DEF Settled, Fates
    <2>3. RequestInv'
      BY <1>4, <2>1, <2>2, StepGood DEF LoopUpstream
    <2>4. ~LoopModel(r)
      BY <1>4 DEF LoopUpstream, LoopModel
    <2>5. QED
      BY <2>3, <2>4
  <1>5. CASE LoopModel(r)
    <2> DEFINE n == [Mark(q, spec, "called") EXCEPT !.pc = "waiting", !.doomed = q.ctxDone]
    <2>1. n \in Settled
      BY <1>1, <1>2
         DEF Mark, GoodStates, Settled, RequestStates, Places, Fates, Placed, Filtering, Looping
    <2>2. QED
      BY <1>3, <1>5, <2>1, StepSettled DEF LoopModel, Fates
  <1>6. QED
    BY <1>4, <1>5

\* A place that keeps the position, within the loop or behind it.
LEMMA GotoGood ==
    ASSUME NEW q \in GoodStates, q.pc \in Looping,
           NEW place \in {"counted", "parse"} \cup (Places \ (Filtering \cup Looping \cup {"idle"}))
    PROVE  Goto(q, place) \in Settled
  BY DEF Goto, GoodStates, Settled, RequestStates, Places, Placed, Filtering, Looping

\* Collecting a Retry-After moves nothing else.
LEMMA RetryAfterGood ==
    ASSUME NEW q \in GoodStates, NEW seconds \in RetryAfters \cup {NoRetryAfter}
    PROVE  WithRetryAfter(q, seconds) \in GoodStates /\ WithRetryAfter(q, seconds).pc = q.pc
  <1>1. seconds \in Nat
    BY RetryAfterAssumption DEF NoRetryAfter
  <1>2. QED
    BY <1>1 DEF WithRetryAfter, GoodStates, Settled, RequestStates, Placed

\* Whatever the upstream answers (handlers_stream.go:51-279).
LEMMA AnswerGood ==
    ASSUME RequestInv, NEW r \in Requests, AnswerStep(r)
    PROVE  RequestInv' /\ req'[r].pc # "loopModel"
  <1> DEFINE q == req[r]
  <1>1. q \in GoodStates /\ q \in RequestStates
    BY DEF RequestInv, GoodStates, Settled
  <1>2. q.pc = "waiting" /\ q.pc \in Looping
    BY DEF AnswerStep, CannotEncode, CannotMarshal, TransportError, BodyBreaksOff,
           RateLimitCounted, AccountLimitReached, Overloaded, ModelGone, Rejected, Succeeded,
           AnsweredPlainly, AnsweredGarbage, Receives, Looping
  <1>3. Continue(q) \in Settled
    BY <1>1, <1>2, ContinueGood
  <1>4. /\ Respond(q, "aborted") \in Settled
        /\ ContinueOr(q, Respond(q, "upstreamError")) \in Settled
    BY <1>1, <1>2, RespondGood, ContinueOrGood DEF ReplyKinds
  <1>5. /\ Goto(q, "parse") \in Settled
        /\ Serve(q, "streaming") \in Settled
        /\ Serve(q, "done") \in Settled
    BY <1>1, <1>2, GotoGood, ServeGood
  <1>6. CASE CannotEncode(r)
    BY <1>1, <1>6, AfterInvalidGood, StepSettled DEF CannotEncode
  <1>7. CASE CannotMarshal(r) \/ Overloaded(r) \/ ModelGone(r) \/ Rejected(r)
    BY <1>4, <1>7, StepSettled DEF CannotMarshal, Overloaded, ModelGone, Rejected
  <1>8. CASE TransportError(r) \/ BodyBreaksOff(r) \/ AnsweredGarbage(r)
    BY <1>3, <1>4, <1>8, StepSettled DEF TransportError, BodyBreaksOff, AnsweredGarbage
  <1>9. CASE Succeeded(r) \/ AnsweredPlainly(r)
    BY <1>5, <1>9, StepSettled DEF Succeeded, AnsweredPlainly
  <1>10. CASE RateLimitCounted(r)
    <2>1. PICK seconds \in RetryAfters \cup {NoRetryAfter} :
            Step(r, Goto(WithRetryAfter(q, seconds), "counted"))
      BY <1>10 DEF RateLimitCounted
    <2>2. Goto(WithRetryAfter(q, seconds), "counted") \in Settled
      BY <1>1, <1>2, RetryAfterGood, GotoGood
    <2>3. QED
      BY <2>1, <2>2, StepSettled
  <1>11. CASE AccountLimitReached(r)
    <2>1. PICK seconds \in RetryAfters \cup {NoRetryAfter} :
            LET w == WithRetryAfter(q, seconds) IN
            Step(r, ContinueOr(w, RespondRateLimited(w)))
      BY <1>11 DEF AccountLimitReached
    <2> DEFINE w == WithRetryAfter(q, seconds)
    <2>2. w \in GoodStates /\ w.pc \in Looping
      BY <1>1, <1>2, RetryAfterGood
    <2>3. ContinueOr(w, RespondRateLimited(w)) \in Settled
      <3> HIDE DEF w
      <3> QED
        BY <2>2, RespondRateLimitedGood, ContinueOrGood
    <2>4. QED
      BY <2>1, <2>3, StepSettled
  <1>12. QED
    BY <1>6, <1>7, <1>8, <1>9, <1>10, <1>11 DEF AnswerStep

\* What follows an answer: the disable of a counted 429, parsing, streaming, giving up.
LEMMA AfterAnswerGood ==
    ASSUME RequestInv, NEW r \in Requests,
           \/ RateLimitApplied(r) \/ Parsed(r) \/ ParsedFailure(r)
           \/ StreamEnds(r) \/ Exhausted(r)
    PROVE  RequestInv' /\ req'[r].pc # "loopModel"
  <1> DEFINE q == req[r]
  <1>1. q \in GoodStates /\ q \in RequestStates
    BY DEF RequestInv, GoodStates, Settled
  <1>2. CASE RateLimitApplied(r)
    <2>1. q.pc \in Looping
      BY <1>2 DEF RateLimitApplied, Looping
    <2>2. QED
      BY <1>1, <1>2, <2>1, RespondRateLimitedGood, ContinueOrGood, StepSettled DEF RateLimitApplied
  <1>3. CASE Parsed(r) \/ ParsedFailure(r)
    <2>1. q.pc \in Looping
      BY <1>3 DEF Parsed, ParsedFailure, Looping
    <2>2. /\ Serve(q, "done") \in Settled
          /\ Continue(q) \in Settled
          /\ Respond(q, "aborted") \in Settled
      BY <1>1, <2>1, ServeGood, ContinueGood, RespondGood DEF ReplyKinds
    <2>3. QED
      BY <1>3, <2>2, StepSettled DEF Parsed, ParsedFailure
  <1>4. CASE StreamEnds(r)
    <2>1. Goto(q, "done") \in Settled
      BY <1>1 DEF Goto, GoodStates, Settled, RequestStates, Places, Placed, Filtering, Looping
    <2>2. QED
      BY <1>4, <2>1, StepSettled DEF StreamEnds
  <1>5. CASE Exhausted(r)
    <2>1. /\ Respond(q, "rateLimited") \in Settled
          /\ Respond(q, "gatewayError") \in Settled
      BY <1>1, RespondGood DEF ReplyKinds
    <2>2. QED
      BY <1>5, <2>1, StepSettled DEF Exhausted
  <1>6. QED
    BY <1>2, <1>3, <1>4, <1>5

\* The context may end anywhere; the request stays where it is.
LEMMA ContextEndsGood ==
    ASSUME RequestInv, NEW r \in Requests, ContextEnds(r)
    PROVE  /\ RequestInv'
           /\ req'[r].pc = req[r].pc /\ Current(req'[r]) = Current(req[r])
  <1> DEFINE n == [req[r] EXCEPT !.ctxDone = TRUE]
  <1>1. n \in GoodStates /\ n.pc = req[r].pc /\ Current(n) = Current(req[r])
    BY DEF RequestInv, GoodStates, RequestStates, Placed, Current
  <1>2. Step(r, n)
    BY DEF ContextEnds
  <1>3. req'[r] = n
    BY <1>2 DEF Step, RequestInv
  <1>4. QED
    BY <1>1, <1>2, <1>3, StepGood

\* Only the check of the upstream leads to the check of the model.
LEMMA RequestStepGood ==
    ASSUME RequestInv, NEW r \in Requests, RequestStep(r)
    PROVE  RequestInv' /\ (~LoopUpstream(r) => req'[r].pc # "loopModel")
  BY FilterGood, LoopHeadGood, AnswerGood, AfterAnswerGood DEF RequestStep

\* RequestInv is inductive.
LEMMA RequestInvStep ==
    ASSUME RequestInv, [FallbackNext]_fallbackVars
    PROVE  RequestInv'
  <1>1. ASSUME NEW r \in Requests, Arrive(r) \/ RequestStep(r) \/ ContextEnds(r)
        PROVE  RequestInv'
    BY <1>1, ArriveGood, RequestStepGood, ContextEndsGood
  <1>2. CASE UNCHANGED req
    BY <1>2 DEF RequestInv
  <1>3. QED
    BY <1>1, <1>2 DEF FallbackNext, TimePasses, Reset, ConfigChanges, RouterReplaced,
                      AllAnswered, fallbackVars

-----------------------------------------------------------------------------
(* Every access to the breaker is a step of CircuitBreaker. *)

\* What a request goroutine may do to the breaker: everything but reset it,
\* publish another configuration or advance the clock.
BreakerUse ==
    \/ \E spec \in Specs, reason \in {"error", "rate_limit", "unavailable"} :
          DisableModelUpstream(spec, reason)
    \/ \E u \in Upstreams : TrackGlobalRateLimit(u)
    \/ \E c \in Callers, spec \in Specs :
          rateLimitRetries[spec] < MaxRetries /\ CountRateLimit(c, spec)
    \/ \E c \in Callers : DisableCounted(c)
    \/ \E key \in Keys : IsModelDisabled(key)
    \/ \E spec \in Specs : ClearRateLimitRetry(spec)

\* One request step either leaves the breaker alone or makes one call of it.
LEMMA RequestStepUsesBreaker ==
    ASSUME RequestInv, NEW r \in Requests, RequestStep(r)
    PROVE  BreakerUse \/ UNCHANGED breakerVars
  <1> DEFINE q == req[r]
  <1>1. q \in GoodStates /\ r \in Callers
    BY CallersAssumption DEF RequestInv
  <1>2. CASE FilterUpstream(r) \/ FilterModel(r)
    <2>1. q.list[q.pos] \in Specs
      BY <1>1, <1>2, CurrentIsSpec DEF FilterUpstream, FilterModel, Filtering
    <2>2. \E key \in Keys : IsModelDisabled(key)
      BY <1>2, <2>1, SpecsAreKeys DEF FilterUpstream, FilterModel
    <2>3. QED
      BY <2>2 DEF BreakerUse
  <1>3. CASE ~(FilterUpstream(r) \/ FilterModel(r))
    <2>1. CASE Exhausted(r) \/ StreamEnds(r)
      BY <2>1 DEF Exhausted, StreamEnds
    <2>2. CASE ~(Exhausted(r) \/ StreamEnds(r))
      <3>1. q.pc \in Looping
        BY <1>3, <2>2 DEF RequestStep, LoopUpstream, LoopModel, AnswerStep, RateLimitApplied,
           Parsed, ParsedFailure, CannotEncode, CannotMarshal, TransportError, BodyBreaksOff,
           RateLimitCounted, AccountLimitReached, Overloaded, ModelGone, Rejected, Succeeded,
           AnsweredPlainly, AnsweredGarbage, Receives, Looping
      <3>2. Current(q) \in Specs
        BY <1>1, <3>1, CurrentIsSpec
      <3>3. CASE LoopUpstream(r) \/ LoopModel(r)
        <4>1. \E key \in Keys : IsModelDisabled(key)
          BY <3>2, <3>3, SpecsAreKeys DEF LoopUpstream, LoopModel
        <4>2. QED
          BY <4>1 DEF BreakerUse
      <3>4. CASE TransportError(r) \/ Overloaded(r) \/ ModelGone(r) \/ AnsweredGarbage(r)
                   \/ ParsedFailure(r)
        <4>1. \E reason \in {"error", "rate_limit", "unavailable"} :
                 DisableModelUpstream(Current(q), reason)
          BY <3>4 DEF TransportError, Overloaded, ModelGone, AnsweredGarbage, ParsedFailure
        <4>2. QED
          BY <3>2, <4>1 DEF BreakerUse
      <3>5. CASE BodyBreaksOff(r)
        <4>1. DisableModelUpstream(Current(q), "error") \/ UNCHANGED breakerVars
          BY <3>5 DEF BodyBreaksOff
        <4>2. QED
          BY <3>2, <4>1 DEF BreakerUse
      <3>6. CASE RateLimitCounted(r)
        BY <1>1, <3>2, <3>6 DEF RateLimitCounted, BreakerUse
      <3>7. CASE RateLimitApplied(r)
        BY <1>1, <3>7 DEF RateLimitApplied, BreakerUse
      <3>8. CASE AccountLimitReached(r)
        BY <3>2, <3>8, SpecsAreKeys DEF AccountLimitReached, BreakerUse
      <3>9. CASE Succeeded(r) \/ AnsweredPlainly(r)
        BY <3>2, <3>9 DEF Succeeded, AnsweredPlainly, BreakerUse
      <3>10. CASE CannotEncode(r) \/ CannotMarshal(r) \/ Rejected(r) \/ Parsed(r)
        BY <3>10 DEF CannotEncode, CannotMarshal, Rejected, Parsed
      <3>11. QED
        BY <1>3, <2>2, <3>3, <3>4, <3>5, <3>6, <3>7, <3>8, <3>9, <3>10
           DEF RequestStep, AnswerStep
    <2>3. QED
      BY <2>1, <2>2
  <1>4. QED
    BY <1>2, <1>3

\* Every step of the request path is a step of the breaker or leaves it alone.
LEMMA UsesBreakerStep ==
    ASSUME RequestInv, [FallbackNext]_fallbackVars
    PROVE  [BreakerNext]_breakerVars
  <1>1. ASSUME NEW r \in Requests, Arrive(r) \/ RequestStep(r) \/ ContextEnds(r)
        PROVE  BreakerNext \/ UNCHANGED breakerVars
    BY <1>1, RequestStepUsesBreaker DEF Arrive, ContextEnds, BreakerUse, BreakerNext
  <1>2. CASE TimePasses \/ Reset \/ ConfigChanges
    BY <1>2 DEF TimePasses, Reset, ConfigChanges, BreakerNext
  <1>3. CASE RouterReplaced \/ AllAnswered \/ UNCHANGED fallbackVars
    BY <1>3 DEF RouterReplaced, AllAnswered, fallbackVars
  <1>4. QED
    BY <1>1, <1>2, <1>3 DEF FallbackNext

\* RequestInv holds throughout.
LEMMA RequestInvariant == FallbackSpec => []RequestInv
  <1>1. FallbackInit => RequestInv
    <2> SUFFICES ASSUME FallbackInit PROVE RequestInv
      OBVIOUS
    <2>1. NewRequest \in GoodStates
      BY EmptySeq DEF NewRequest, GoodStates, RequestStates, Places, Fates, Replies, ReplyKinds,
                      NoReply, NoSpec, NoRetryAfter, Placed, Filtering, Looping
    <2>2. QED
      BY <2>1 DEF FallbackInit, RequestInv
  <1>2. RequestInv /\ [FallbackNext]_fallbackVars => RequestInv'
    BY RequestInvStep
  <1>3. QED
    BY <1>1, <1>2, PTL DEF FallbackSpec

\* The requests, however they interleave and whatever the upstreams answer,
\* drive the breaker only through its critical sections: each behaviour of
\* Fallback is one of CircuitBreaker.
THEOREM BreakerRefined == FallbackSpec => UsesBreaker
  <1>1. FallbackInit => BreakerInit
    BY DEF FallbackInit
  <1>2. RequestInv /\ [FallbackNext]_fallbackVars => [BreakerNext]_breakerVars
    BY UsesBreakerStep
  <1>3. QED
    BY <1>1, <1>2, RequestInvariant, PTL DEF FallbackSpec, UsesBreaker, BreakerSpec

-----------------------------------------------------------------------------
(* The history variables are well typed. *)

\* The types of the registry and of the history variables.
HistoryTypeOK ==
    /\ registered \in Registries
    /\ calls \in [Requests -> Seq(Specs)]
    /\ evidence \in [Specs -> SUBSET {"failed", "gone", "limited", "account"}]
    /\ cutoff \in [Requests -> [Upstreams -> Nat]]

\* The steps of a request in its loop concern a model of its list.
LEMMA LoopStepSpec ==
    ASSUME RequestInv, NEW r \in Requests, RequestStep(r),
           ~(FilterUpstream(r) \/ FilterModel(r) \/ Exhausted(r) \/ StreamEnds(r))
    PROVE  Current(req[r]) \in Specs
  <1>1. req[r] \in GoodStates
    BY DEF RequestInv
  <1>2. req[r].pc \in Looping
    BY DEF RequestStep, LoopUpstream, LoopModel, AnswerStep, RateLimitApplied,
       Parsed, ParsedFailure, CannotEncode, CannotMarshal, TransportError, BodyBreaksOff,
       RateLimitCounted, AccountLimitReached, Overloaded, ModelGone, Rejected, Succeeded,
       AnsweredPlainly, AnsweredGarbage, Receives, Looping
  <1>3. QED
    BY <1>1, <1>2, CurrentIsSpec

\* A request goroutine keeps them: it only records models of Specs.
LEMMA RequestStepHistory ==
    ASSUME RequestInv, BreakerTypeOK, HistoryTypeOK, NEW r \in Requests, RequestStep(r)
    PROVE  HistoryTypeOK'
  <1> DEFINE spec == Current(req[r])
  <1>1. CASE FilterUpstream(r) \/ FilterModel(r) \/ Exhausted(r) \/ StreamEnds(r)
    BY <1>1 DEF FilterUpstream, FilterModel, Exhausted, StreamEnds, historyVars, HistoryTypeOK
  <1>2. CASE ~(FilterUpstream(r) \/ FilterModel(r) \/ Exhausted(r) \/ StreamEnds(r))
    <2>1. spec \in Specs
      BY <1>2, LoopStepSpec
    <2> HIDE DEF spec
    <2>2. CASE LoopUpstream(r) \/ CannotEncode(r) \/ CannotMarshal(r) \/ RateLimitApplied(r)
               \/ Parsed(r)
      BY <2>2 DEF LoopUpstream, CannotEncode, CannotMarshal, RateLimitApplied, Parsed,
                  historyVars, HistoryTypeOK
    <2>3. CASE LoopModel(r)
      <3>1. Append(calls[r], spec) \in Seq(Specs)
        BY <2>1, AppendProperties DEF HistoryTypeOK
      <3>2. calls' = calls \/ calls' = [calls EXCEPT ![r] = Append(calls[r], spec)]
        BY <2>3 DEF LoopModel, spec
      <3>3. QED
        BY <2>3, <3>1, <3>2 DEF LoopModel, HistoryTypeOK
    <2>4. CASE RateLimitCounted(r)
      <3>1. evidence' \in [Specs -> SUBSET {"failed", "gone", "limited", "account"}]
        BY <2>1, <2>4 DEF RateLimitCounted, Learn, HistoryTypeOK, spec
      <3>2. QED
        BY <2>4, <3>1 DEF RateLimitCounted, HistoryTypeOK
    <2>5. CASE AccountLimitReached(r)
      <3>1. now + RateLimitCooldown \in Nat
        BY CooldownAssumption DEF BreakerTypeOK
      <3>2. spec[1] \in Upstreams
        BY <2>1, SpecsAreKeys
      <3>3. cutoff' = [cutoff EXCEPT ![r][spec[1]] = now + RateLimitCooldown]
        BY <2>5 DEF AccountLimitReached, spec
      <3>4. cutoff' \in [Requests -> [Upstreams -> Nat]]
        BY <3>1, <3>2, <3>3 DEF HistoryTypeOK
      <3>5. evidence' \in [Specs -> SUBSET {"failed", "gone", "limited", "account"}]
        BY <2>1, <2>5 DEF AccountLimitReached, Learn, HistoryTypeOK, spec
      <3>6. QED
        BY <2>5, <3>4, <3>5 DEF AccountLimitReached, HistoryTypeOK
    <2>6. CASE TransportError(r) \/ BodyBreaksOff(r) \/ ParsedFailure(r)
      <3>1. evidence' = evidence \/ evidence' = [evidence EXCEPT ![spec] = evidence[spec] \cup {"failed"}]
        BY <2>6 DEF TransportError, BodyBreaksOff, ParsedFailure, Learn, spec
      <3>2. evidence' \in [Specs -> SUBSET {"failed", "gone", "limited", "account"}]
        BY <2>1, <3>1 DEF HistoryTypeOK
      <3>3. QED
        BY <2>6, <3>2 DEF TransportError, BodyBreaksOff, ParsedFailure, HistoryTypeOK
    <2>7. CASE Overloaded(r) \/ ModelGone(r) \/ Rejected(r) \/ Succeeded(r)
               \/ AnsweredPlainly(r) \/ AnsweredGarbage(r)
      <3>1. \/ evidence' = evidence
            \/ \E what \in {"failed", "gone"} :
                  evidence' = [evidence EXCEPT ![spec] = evidence[spec] \cup {what}]
        BY <2>7 DEF Overloaded, ModelGone, Rejected, Succeeded, AnsweredPlainly,
                    AnsweredGarbage, Learn, spec
      <3>2. UNCHANGED <<registered, calls, cutoff>>
        BY <2>7 DEF Overloaded, ModelGone, Rejected, Succeeded, AnsweredPlainly, AnsweredGarbage
      <3>3. QED
        BY <2>1, <3>1, <3>2 DEF HistoryTypeOK
    <2>8. QED
      BY <1>2, <2>2, <2>3, <2>4, <2>5, <2>6, <2>7 DEF RequestStep, AnswerStep
  <1>3. QED
    BY <1>1, <1>2

\* And so does every other step.
LEMMA HistoryTypeStep ==
    ASSUME RequestInv, BreakerTypeOK, HistoryTypeOK, [FallbackNext]_fallbackVars
    PROVE  HistoryTypeOK'
  <1>1. ASSUME NEW r \in Requests, Arrive(r) \/ RequestStep(r) \/ ContextEnds(r)
        PROVE  HistoryTypeOK'
    BY <1>1, RequestStepHistory DEF Arrive, ContextEnds, historyVars, HistoryTypeOK
  <1>2. CASE Reset
    BY <1>2 DEF Reset, HistoryTypeOK
  <1>3. CASE TimePasses \/ ConfigChanges \/ RouterReplaced \/ AllAnswered
             \/ UNCHANGED fallbackVars
    BY <1>3 DEF TimePasses, ConfigChanges, RouterReplaced, AllAnswered, fallbackVars,
                historyVars, HistoryTypeOK
  <1>4. QED
    BY <1>1, <1>2, <1>3 DEF FallbackNext

\* Every variable stays within its type; in particular a request in the loop
\* is always at a position of its list.
THEOREM FallbackTypeCorrect == FallbackSpec => []FallbackTypeOK
  <1>1. FallbackInit => HistoryTypeOK
    BY EmptySeq DEF FallbackInit, HistoryTypeOK
  <1>2. FallbackSpec => []BreakerTypeOK
    BY BreakerRefined, BreakerTypeCorrect DEF UsesBreaker
  <1>3. RequestInv /\ BreakerTypeOK /\ HistoryTypeOK /\ [FallbackNext]_fallbackVars
          => HistoryTypeOK'
    BY HistoryTypeStep
  <1>4. RequestInv /\ BreakerTypeOK /\ HistoryTypeOK => FallbackTypeOK
    BY DEF RequestInv, GoodStates, HistoryTypeOK, FallbackTypeOK
  <1>5. QED
    BY <1>1, <1>2, <1>3, <1>4, RequestInvariant, PTL DEF FallbackSpec

-----------------------------------------------------------------------------
(***************************************************************************)
(* CascadeStopped.  Between the account limit and the next call the        *)
(* request goroutine checks the upstream's key, so two facts are needed:   *)
(* until its cutoff the key stays disabled (no other goroutine may shorten *)
(* it), and a request that has passed the check is past every cutoff.      *)
(***************************************************************************)

\* While a cutoff is ahead, the whole upstream is rate limited at least until then.
CutoffKept ==
    \A r \in Requests, u \in Upstreams :
        now < cutoff[r][u] =>
            /\ disabledUntil[<<u, AnyModel>>].reason = "rate_limit"
            /\ cutoff[r][u] <= disabledUntil[<<u, AnyModel>>].until

\* A request that has just found its upstream enabled has no cutoff ahead there.
CheckPassed ==
    \A r \in Requests :
        req[r].pc = "loopModel" => cutoff[r][Current(req[r])[1]] <= now

\* The types, in the parts the proofs below use.
TypeInv == RequestInv /\ BreakerTypeOK /\ HistoryTypeOK

\* A request goroutine neither moves the clock nor deletes a key in force.
LEMMA UseKeepsDisabled ==
    ASSUME BreakerTypeOK, BreakerUse \/ UNCHANGED breakerVars
    PROVE  /\ now' = now
           /\ \A key \in Keys : Disabled(key) => disabledUntil'[key] # NoEntry
  <1>1. now' = now
    BY Zenon DEF BreakerUse, DisableModelUpstream, TrackGlobalRateLimit, CountRateLimit,
       DisableCounted, IsModelDisabled, ClearRateLimitRetry, breakerVars
  <1>2. ASSUME NEW key \in Keys, Disabled(key)
        PROVE  disabledUntil'[key] # NoEntry
    <2>1. disabledUntil \in [Keys -> Entries] /\ disabledUntil[key] # NoEntry
      BY <1>2 DEF BreakerTypeOK, Disabled, NoEntry
    <2>2. ASSUME NEW k \in Keys, NEW reason \in Reasons, DisableModel(k, reason)
          PROVE  disabledUntil'[key] # NoEntry
      <3>1. \/ disabledUntil' = disabledUntil
            \/ disabledUntil' = [disabledUntil EXCEPT ![k] =
                                   [until |-> NewUntil(k, reason), reason |-> reason]]
        BY <2>2 DEF DisableModel, NewUntil
      <3>2. QED
        BY <2>1, <3>1 DEF NoEntry, Reasons
    <2>3. ASSUME NEW k \in Keys, IsModelDisabled(k)
          PROVE  disabledUntil'[key] # NoEntry
      BY <1>2, <2>1, <2>3 DEF IsModelDisabled
    <2>4. ASSUME NEW spec \in Specs, NEW reason \in {"error", "rate_limit", "unavailable"},
                 DisableModelUpstream(spec, reason)
          PROVE  disabledUntil'[key] # NoEntry
      BY <2>2, <2>4, SpecsAreKeys DEF DisableModelUpstream, Reasons
    <2>5. ASSUME NEW u \in Upstreams, TrackGlobalRateLimit(u)
          PROVE  disabledUntil'[key] # NoEntry
      BY <2>2, <2>5 DEF TrackGlobalRateLimit, Reasons, Keys
    <2>6. ASSUME NEW c \in Callers, DisableCounted(c)
          PROVE  disabledUntil'[key] # NoEntry
      <3>1. counted[c].key \in Keys
        BY <2>6, SpecsAreKeys DEF DisableCounted, BreakerTypeOK, Counts
      <3>2. QED
        BY <2>2, <2>6, <3>1 DEF DisableCounted, Reasons
    <2>7. CASE UNCHANGED disabledUntil
      BY <2>1, <2>7
    <2>8. QED
      BY <2>3, <2>4, <2>5, <2>6, <2>7
         DEF BreakerUse, CountRateLimit, ClearRateLimitRetry, breakerVars
  <1>3. QED
    BY <1>1, <1>2

\* An upstream's entry that protects a cutoff still does after the step.
LEMMA UseKeepsCutoff ==
    ASSUME BreakerTypeOK, BreakerUse \/ UNCHANGED breakerVars, NEW u \in Upstreams,
           NEW t \in Nat, now < t, disabledUntil[<<u, AnyModel>>].reason = "rate_limit",
           t <= disabledUntil[<<u, AnyModel>>].until
    PROVE  /\ disabledUntil'[<<u, AnyModel>>].reason = "rate_limit"
           /\ t <= disabledUntil'[<<u, AnyModel>>].until
  <1> DEFINE key == <<u, AnyModel>>
  <1>1. key \in Keys /\ key[2] = AnyModel
    BY DEF Keys
  <1>2. disabledUntil[key] \in Entries /\ now \in Nat /\ Disabled(key)
    BY <1>1 DEF BreakerTypeOK, Disabled, Entries
  <1> HIDE DEF key
  <1>3. EntryChange(key)
    BY <1>1, StepChangesEntries DEF BreakerUse, BreakerNext
  <1>4. disabledUntil'[key] # NoEntry
    BY <1>1, <1>2, UseKeepsDisabled
  <1>5. CASE disabledUntil'[key] = disabledUntil[key]
    BY <1>5 DEF key
  <1>6. ASSUME NEW reason \in Reasons, Wrote(key, reason)
        PROVE  /\ disabledUntil'[key].reason = "rate_limit"
               /\ t <= disabledUntil'[key].until
    <2>1. reason = "rate_limit"
      BY <1>1, <1>6 DEF Wrote
    <2>2. NewUntil(key, reason) \in Nat /\ NewUntil(key, reason) # ZeroTime
      BY <1>2, <2>1, CooldownType DEF NewUntil, ZeroTime
    <2>3. ~(disabledUntil[key].until > NewUntil(key, reason))
      BY <1>6, <2>2 DEF Wrote, Keeps
    <2>4. t <= disabledUntil[key].until /\ disabledUntil[key].until \in Nat
      BY <1>2 DEF key, Entries
    <2>5. QED
      BY <1>6, <2>1, <2>2, <2>3, <2>4 DEF Wrote
  <1>7. QED
    BY <1>3, <1>4, <1>5, <1>6 DEF EntryChange, key

\* A key without a reason is a key that is not in the map.
NoDeadlineAlone ==
    \A key \in Keys : disabledUntil[key].reason = "none" => disabledUntil[key].until = ZeroTime

\* An invariant of the breaker, whoever calls it.
LEMMA NoDeadlineAloneInvariant == BreakerSpec => []NoDeadlineAlone
  <1>1. BreakerInit => NoDeadlineAlone
    BY DEF BreakerInit, NoDeadlineAlone, NoEntry
  <1>2. BreakerTypeOK /\ NoDeadlineAlone /\ [BreakerNext]_breakerVars => NoDeadlineAlone'
    <2> SUFFICES ASSUME BreakerTypeOK, NoDeadlineAlone, [BreakerNext]_breakerVars,
                        NEW key \in Keys, disabledUntil'[key].reason = "none"
                 PROVE  disabledUntil'[key].until = ZeroTime
      BY DEF NoDeadlineAlone
    <2>1. EntryChange(key)
      BY StepChangesEntries
    <2>2. QED
      BY <2>1 DEF EntryChange, Wrote, NoEntry, Reasons, NoDeadlineAlone
  <1>3. QED
    BY <1>1, <1>2, BreakerTypeCorrect, PTL DEF BreakerSpec

\* The account limit disables the upstream at least until the cutoff it sets.
LEMMA LimitSetsEntry ==
    ASSUME BreakerTypeOK, UpstreamNeverLost, NoDeadlineAlone,
           NEW u \in Upstreams, TrackGlobalRateLimit(u)
    PROVE  /\ disabledUntil'[<<u, AnyModel>>].reason = "rate_limit"
           /\ now + RateLimitCooldown <= disabledUntil'[<<u, AnyModel>>].until
  <1> DEFINE key == <<u, AnyModel>>
             until == now + RateLimitCooldown
  <1>1. key \in Keys /\ disabledUntil \in [Keys -> Entries] /\ disabledUntil[key] \in Entries
    BY DEF Keys, BreakerTypeOK
  <1>2. until \in Nat /\ until # ZeroTime
    BY CooldownAssumption DEF BreakerTypeOK, ZeroTime
  <1>3. NewUntil(key, "rate_limit") = until
    BY CooldownType DEF NewUntil
  <1>4. disabledUntil' = IF Keeps(disabledUntil[key], until) THEN disabledUntil
                           ELSE [disabledUntil EXCEPT ![key] =
                                   [until |-> until, reason |-> "rate_limit"]]
    BY <1>3 DEF TrackGlobalRateLimit, DisableModel, NewUntil
  <1>5. disabledUntil[key].reason # "none" =>
          /\ disabledUntil[key].reason = "rate_limit"
          /\ disabledUntil[key].until <= until
    BY DEF UpstreamNeverLost
  <1>6. CASE Keeps(disabledUntil[key], until)
    <2>1. CASE disabledUntil[key].reason = "none"
      <3>1. disabledUntil[key].until = ZeroTime
        BY <1>1, <2>1 DEF NoDeadlineAlone
      <3>2. QED
        BY <1>2, <1>6, <2>1, <3>1 DEF Keeps, ZeroTime
    <2>2. CASE disabledUntil[key].reason # "none"
      <3>1. disabledUntil[key].until \in Nat
        BY <1>1 DEF Entries
      <3>2. QED
        BY <1>2, <1>5, <1>6, <2>2, <3>1 DEF Keeps
    <2>3. QED
      BY <2>1, <2>2
  <1>7. CASE ~Keeps(disabledUntil[key], until)
    BY <1>1, <1>2, <1>4, <1>7
  <1>8. QED
    BY <1>6, <1>7

\* What one step of one request does to what the invariant speaks of.
LEMMA RequestStepCutoff ==
    ASSUME TypeInv, NEW r \in Requests, RequestStep(r)
    PROVE  /\ \A other \in Requests \ {r} : req'[other] = req[other]
           /\ \/ UNCHANGED cutoff
              \/ /\ AccountLimitReached(r)
                 /\ cutoff' = [cutoff EXCEPT ![r][Current(req[r])[1]] = now + RateLimitCooldown]
           /\ LoopUpstream(r) =>
                 /\ UNCHANGED cutoff
                 /\ req'[r].pc = "loopModel" =>
                       /\ Current(req'[r]) = Current(req[r])
                       /\ ~Disabled(Wildcard(Current(req[r])))
  <1>1. req \in [Requests -> RequestStates]
    BY DEF TypeInv, RequestInv, GoodStates
  <1>2. \E q : req' = [req EXCEPT ![r] = q]
    BY DEF RequestStep, FilterUpstream, FilterModel, LoopUpstream, LoopModel, AnswerStep,
       RateLimitApplied, Parsed, ParsedFailure, StreamEnds, Exhausted, CannotEncode,
       CannotMarshal, TransportError, BodyBreaksOff, RateLimitCounted, AccountLimitReached,
       Overloaded, ModelGone, Rejected, Succeeded, AnsweredPlainly, AnsweredGarbage, Step
  <1>3. UNCHANGED cutoff \/ AccountLimitReached(r)
    BY DEF RequestStep, FilterUpstream, FilterModel, LoopUpstream, LoopModel, AnswerStep,
       RateLimitApplied, Parsed, ParsedFailure, StreamEnds, Exhausted, CannotEncode,
       CannotMarshal, TransportError, BodyBreaksOff, RateLimitCounted,
       Overloaded, ModelGone, Rejected, Succeeded, AnsweredPlainly, AnsweredGarbage, historyVars
  <1>4. AccountLimitReached(r) =>
          cutoff' = [cutoff EXCEPT ![r][Current(req[r])[1]] = now + RateLimitCooldown]
    BY DEF AccountLimitReached
  <1>5. ASSUME LoopUpstream(r), req'[r].pc = "loopModel"
        PROVE  /\ Current(req'[r]) = Current(req[r])
               /\ ~Disabled(Wildcard(Current(req[r])))
    <2> DEFINE q == req[r]
    <2>1. q \in GoodStates /\ q.pc \in Looping
      BY <1>5 DEF TypeInv, RequestInv, LoopUpstream, Looping
    <2>2. CASE Disabled(Wildcard(Current(q)))
      <3>1. Current(q) \in Specs
        BY <2>1, CurrentIsSpec
      <3>2. Continue(Mark(q, Current(q), "disabled")) \in Settled
        BY <2>1, <3>1, MarkGood, ContinueGood DEF Fates
      <3>3. req'[r].pc # "loopModel"
        BY <1>5, <2>2, <3>2, StepSettled DEF LoopUpstream, TypeInv
      <3>4. QED
        BY <1>5, <3>3
    <2>3. CASE ~Disabled(Wildcard(Current(q)))
      <3>1. req'[r] = Goto(q, "loopModel")
        BY <1>1, <1>5, <2>3 DEF LoopUpstream, Step
      <3>2. Current(Goto(q, "loopModel")) = Current(q)
        BY <1>1 DEF Goto, Current, RequestStates
      <3>3. QED
        BY <2>3, <3>1, <3>2
    <2>4. QED
      BY <2>2, <2>3
  <1>6. LoopUpstream(r) => UNCHANGED cutoff
    BY DEF LoopUpstream, historyVars
  <1>7. QED
    BY <1>1, <1>2, <1>3, <1>4, <1>5, <1>6

\* No request goroutine ends the disable that a cutoff rests on.
LEMMA CutoffKeptByRequest ==
    ASSUME TypeInv, UpstreamNeverLost, NoDeadlineAlone, CutoffKept,
           NEW r \in Requests, RequestStep(r)
    PROVE  CutoffKept'
  <1>1. BreakerUse \/ UNCHANGED breakerVars
    BY RequestStepUsesBreaker DEF TypeInv
  <1>2. now' = now /\ now \in Nat
    BY <1>1, UseKeepsDisabled DEF TypeInv, BreakerTypeOK
  <1> SUFFICES ASSUME NEW c \in Requests, NEW u \in Upstreams, now < cutoff'[c][u]
               PROVE  /\ disabledUntil'[<<u, AnyModel>>].reason = "rate_limit"
                      /\ cutoff'[c][u] <= disabledUntil'[<<u, AnyModel>>].until
    BY <1>2 DEF CutoffKept
  <1>3. cutoff \in [Requests -> [Upstreams -> Nat]] /\ cutoff[c][u] \in Nat
    BY DEF TypeInv, HistoryTypeOK
  <1>4. CASE cutoff'[c][u] = cutoff[c][u]
    <2>1. /\ disabledUntil[<<u, AnyModel>>].reason = "rate_limit"
          /\ cutoff[c][u] <= disabledUntil[<<u, AnyModel>>].until
      BY <1>4 DEF CutoffKept
    <2>2. QED
      BY <1>1, <1>3, <1>4, <2>1, UseKeepsCutoff DEF TypeInv
  <1>5. CASE cutoff'[c][u] # cutoff[c][u]
    <2>1. /\ AccountLimitReached(r)
          /\ cutoff' = [cutoff EXCEPT ![r][Current(req[r])[1]] = now + RateLimitCooldown]
      BY <1>5, RequestStepCutoff
    <2>2. u = Current(req[r])[1] /\ cutoff'[c][u] = now + RateLimitCooldown
      BY <1>3, <1>5, <2>1
    <2>3. TrackGlobalRateLimit(u)
      BY <2>1, <2>2 DEF AccountLimitReached
    <2>4. QED
      BY <2>2, <2>3, LimitSetsEntry DEF TypeInv
  <1>6. QED
    BY <1>4, <1>5

\* What one request learns or disables does not concern the check of another.
LEMMA CheckPassedByRequest ==
    ASSUME TypeInv, CutoffKept, CheckPassed, NEW r \in Requests, RequestStep(r)
    PROVE  CheckPassed'
  <1>1. now' = now /\ now \in Nat
    BY RequestStepUsesBreaker, UseKeepsDisabled DEF TypeInv, BreakerTypeOK
  <1> SUFFICES ASSUME NEW c \in Requests, req'[c].pc = "loopModel"
               PROVE  cutoff'[c][Current(req'[c])[1]] <= now
    BY <1>1 DEF CheckPassed
  <1>2. cutoff \in [Requests -> [Upstreams -> Nat]]
    BY DEF TypeInv, HistoryTypeOK
  <1>3. CASE c # r
    <2>1. req'[c] = req[c] /\ cutoff'[c] = cutoff[c]
      BY <1>2, <1>3, RequestStepCutoff
    <2>2. QED
      BY <2>1 DEF CheckPassed
  <1>4. CASE c = r
    <2>1. LoopUpstream(r)
      BY <1>4, RequestStepGood DEF TypeInv
    <2> DEFINE u == Current(req[r])[1]
    <2>2. /\ UNCHANGED cutoff
          /\ Current(req'[r]) = Current(req[r])
          /\ ~Disabled(<<u, AnyModel>>)
      BY <1>4, <2>1, RequestStepCutoff DEF Wildcard
    <2>3. Current(req[r]) \in Specs
      BY <2>1, LoopStepSpec DEF TypeInv, LoopUpstream, FilterUpstream, FilterModel, Exhausted,
         StreamEnds
    <2>4. u \in Upstreams /\ <<u, AnyModel>> \in Keys
      BY <2>3, SpecsAreKeys DEF Wildcard
    <2>5. cutoff[r][u] \in Nat /\ disabledUntil[<<u, AnyModel>>].until \in Nat
      BY <1>2, <2>4 DEF TypeInv, BreakerTypeOK, Entries
    <2>6. ~(now < cutoff[r][u])
      BY <1>1, <2>2, <2>4, <2>5 DEF CutoffKept, Disabled
    <2>7. QED
      BY <1>1, <1>4, <2>2, <2>5, <2>6
  <1>5. QED
    BY <1>3, <1>4

\* Both parts are inductive.
LEMMA CutoffStep ==
    ASSUME TypeInv, UpstreamNeverLost, NoDeadlineAlone, CutoffKept, CheckPassed,
           [FallbackNext]_fallbackVars
    PROVE  CutoffKept' /\ CheckPassed'
  <1>1. ASSUME NEW r \in Requests, RequestStep(r)
        PROVE  CutoffKept' /\ CheckPassed'
    BY <1>1, CutoffKeptByRequest, CheckPassedByRequest
  <1>2. ASSUME NEW r \in Requests, Arrive(r) \/ ContextEnds(r)
        PROVE  CutoffKept' /\ CheckPassed'
    <2>1. UNCHANGED <<breakerVars, cutoff>>
      BY <1>2 DEF Arrive, ContextEnds, historyVars
    <2>2. CutoffKept'
      BY <2>1 DEF CutoffKept, breakerVars
    <2>3. \A c \in Requests : req'[c].pc = "loopModel" =>
             req[c].pc = "loopModel" /\ Current(req'[c]) = Current(req[c])
      <3>1. req \in [Requests -> RequestStates]
        BY DEF TypeInv, RequestInv, GoodStates
      <3>2. \E q : Step(r, q)
        BY <1>2 DEF Arrive, ContextEnds
      <3>3. \A c \in Requests \ {r} : req'[c] = req[c]
        BY <3>1, <3>2 DEF Step
      <3>4. Arrive(r) => req'[r].pc = "filterUpstream"
        BY <3>1 DEF Arrive, Step, RequestStates
      <3>5. ContextEnds(r) => req'[r].pc = req[r].pc /\ Current(req'[r]) = Current(req[r])
        BY ContextEndsGood DEF TypeInv
      <3>6. QED
        BY <1>2, <3>3, <3>4, <3>5
    <2>4. QED
      BY <2>1, <2>2, <2>3 DEF CheckPassed, breakerVars
  <1>3. CASE Reset
    <2>1. now' = now /\ now \in Nat
      BY <1>3 DEF Reset, ResetCircuitBreakers, TypeInv, BreakerTypeOK
    <2>2. cutoff' = [r \in Requests |-> [u \in Upstreams |-> 0]] /\ req' = req
      BY <1>3 DEF Reset
    <2>3. ASSUME NEW r \in Requests, req[r].pc = "loopModel"
          PROVE  Current(req[r])[1] \in Upstreams
      <3>1. req[r] \in GoodStates /\ req[r].pc \in Looping
        BY <2>3 DEF TypeInv, RequestInv, Looping
      <3>2. QED
        BY <3>1, CurrentIsSpec, SpecsAreKeys
    <2>4. QED
      BY <2>1, <2>2, <2>3 DEF CutoffKept, CheckPassed
  <1>4. CASE TimePasses
    <2>1. now' = now + 1 /\ now \in Nat /\ UNCHANGED <<disabledUntil, req, cutoff>>
      BY <1>4 DEF TimePasses, Tick, TypeInv, BreakerTypeOK, historyVars
    <2>2. \A r \in Requests, u \in Upstreams : cutoff[r][u] \in Nat
      BY DEF TypeInv, HistoryTypeOK
    <2>3. ASSUME NEW r \in Requests, req[r].pc = "loopModel"
          PROVE  Current(req[r])[1] \in Upstreams
      <3>1. req[r] \in GoodStates /\ req[r].pc \in Looping
        BY <2>3 DEF TypeInv, RequestInv, Looping
      <3>2. QED
        BY <3>1, CurrentIsSpec, SpecsAreKeys
    <2>4. CutoffKept'
      BY <2>1, <2>2 DEF CutoffKept
    <2>5. CheckPassed'
      BY <2>1, <2>2, <2>3 DEF CheckPassed
    <2>6. QED
      BY <2>4, <2>5
  <1>5. CASE ConfigChanges \/ RouterReplaced \/ AllAnswered \/ UNCHANGED fallbackVars
    <2>1. UNCHANGED <<now, disabledUntil, req, cutoff>>
      BY <1>5 DEF ConfigChanges, PublishConfig, RouterReplaced, AllAnswered, fallbackVars,
                  breakerVars, historyVars
    <2>2. QED
      BY <2>1 DEF CutoffKept, CheckPassed
  <1>6. QED
    BY <1>1, <1>2, <1>3, <1>4, <1>5 DEF FallbackNext

\* A call is only ever made from between the checks, of the model checked.
LEMMA CallsStep ==
    ASSUME TypeInv, [FallbackNext]_fallbackVars, NEW r \in Requests, calls'[r] # calls[r]
    PROVE  /\ req[r].pc = "loopModel"
           /\ calls'[r][Len(calls'[r])] = Current(req[r])
  <1>1. PICK c \in Requests : LoopModel(c)
    BY DEF FallbackNext, Arrive, ContextEnds, TimePasses, Reset, ConfigChanges, RouterReplaced,
       AllAnswered, fallbackVars, RequestStep, FilterUpstream, FilterModel, LoopUpstream,
       AnswerStep, RateLimitApplied, Parsed, ParsedFailure, StreamEnds, Exhausted, CannotEncode,
       CannotMarshal, TransportError, BodyBreaksOff, RateLimitCounted, AccountLimitReached,
       Overloaded, ModelGone, Rejected, Succeeded, AnsweredPlainly, AnsweredGarbage, historyVars
  <1>2. calls \in [Requests -> Seq(Specs)]
    BY DEF TypeInv, HistoryTypeOK
  <1>3. calls' = calls \/ calls' = [calls EXCEPT ![c] = Append(calls[c], Current(req[c]))]
    BY <1>1 DEF LoopModel
  <1>4. c = r /\ calls'[r] = Append(calls[r], Current(req[r]))
    BY <1>2, <1>3
  <1>5. Current(req[r]) \in Specs
    BY <1>1, <1>4, LoopStepSpec
       DEF TypeInv, RequestStep, LoopModel, FilterUpstream, FilterModel, Exhausted, StreamEnds
  <1>6. QED
    BY <1>1, <1>2, <1>4, <1>5, AppendProperties DEF LoopModel

\* Until the cooldown of an account limit it has met ends, or the breaker is
\* reset, a request calls no other model of that upstream, whatever the other
\* requests do to the same key meanwhile (handlers.go:398-402, 415-418).
THEOREM CascadeAlwaysStopped == FallbackSpec => CascadeStopped
  <1>1. FallbackInit => CutoffKept /\ CheckPassed /\ HistoryTypeOK
    <2> SUFFICES ASSUME FallbackInit PROVE CutoffKept /\ CheckPassed /\ HistoryTypeOK
      OBVIOUS
    <2>1. HistoryTypeOK
      BY EmptySeq DEF FallbackInit, HistoryTypeOK
    <2>2. CutoffKept
      BY DEF FallbackInit, BreakerInit, CutoffKept
    <2>3. CheckPassed
      BY DEF FallbackInit, NewRequest, CheckPassed
    <2>4. QED
      BY <2>1, <2>2, <2>3
  <1>2. FallbackSpec => []BreakerTypeOK /\ []UpstreamNeverLost /\ []NoDeadlineAlone
    BY BreakerRefined, BreakerTypeCorrect, UpstreamKept, NoDeadlineAloneInvariant DEF UsesBreaker
  <1>3. RequestInv /\ BreakerTypeOK /\ HistoryTypeOK /\ [FallbackNext]_fallbackVars
          => HistoryTypeOK'
    BY HistoryTypeStep
  <1>4. RequestInv /\ BreakerTypeOK /\ HistoryTypeOK /\ UpstreamNeverLost /\ NoDeadlineAlone
          /\ CutoffKept /\ CheckPassed /\ [FallbackNext]_fallbackVars
          => CutoffKept' /\ CheckPassed'
    BY CutoffStep DEF TypeInv
  <1>5. RequestInv /\ BreakerTypeOK /\ HistoryTypeOK /\ CheckPassed
          /\ [FallbackNext]_fallbackVars
          => [\A r \in Requests :
                calls'[r] # calls[r] =>
                  cutoff[r][calls'[r][Len(calls'[r])][1]] <= now]_fallbackVars
    BY CallsStep DEF TypeInv, CheckPassed
  <1>6. QED
    BY <1>1, <1>2, <1>3, <1>4, <1>5, RequestInvariant, PTL DEF FallbackSpec, CascadeStopped

-----------------------------------------------------------------------------
(* Evidence.  What an upstream has said is never forgotten, and an entry is *)
(* only ever written for a reason its upstream gave.  One reason is given   *)
(* earlier than it is used: trackRateLimit counts a 429 in one critical     *)
(* section and disables in another.  The invariant therefore also says that *)
(* a caller between the two has a 429 of that model to show: CountBacked.   *)

\* Whoever is inside trackRateLimit has met a 429 of the model it counted
\* (handlers.go:420-434).
CountBacked ==
    \A c \in Callers : counted[c] # NotCounted => "limited" \in evidence[counted[c].key]

\* The inductive invariant.
EvidenceInv == EvidenceBacked /\ CountBacked

\* What has to be known before key is disabled for reason.
Backs(key, reason) ==
    /\ key \in Specs =>
          /\ reason = "unavailable" => "gone" \in evidence'[key]
          /\ reason \in {"rate_limit", "rate_limit_escalated"} => "limited" \in evidence'[key]
    /\ \A u \in Upstreams :
          key = <<u, AnyModel>> => \E m \in Models : "account" \in evidence'[<<u, m>>]

\* No answer is forgotten.
Remembers == \A s \in Specs : evidence[s] \subseteq evidence'[s]

-----------------------------------------------------------------------------

\* Entries that stay, or leave the map, need no new evidence.
LEMMA KeptEntriesBacked ==
    ASSUME EvidenceBacked, Remembers,
           \A key \in Keys : disabledUntil'[key] \in {disabledUntil[key], NoEntry}
    PROVE  EvidenceBacked'
  <1>1. \A s \in Specs : s \in Keys
    BY SpecsAreKeys
  <1>2. \A u \in Upstreams : <<u, AnyModel>> \in Keys
    BY DEF Keys
  <1>3. ASSUME NEW s \in Specs
        PROVE  /\ disabledUntil'[s].reason = "unavailable" => "gone" \in evidence'[s]
               /\ RateLimited(disabledUntil'[s]) => "limited" \in evidence'[s]
    BY <1>1, <1>3 DEF EvidenceBacked, Remembers, RateLimited, NoEntry
  <1>4. ASSUME NEW u \in Upstreams, disabledUntil'[<<u, AnyModel>>] # NoEntry
        PROVE  \E m \in Models : "account" \in evidence'[<<u, m>>]
    <2>1. PICK m \in Models : "account" \in evidence[<<u, m>>]
      BY <1>2, <1>4 DEF EvidenceBacked
    <2>2. QED
      BY <2>1 DEF Remembers, Specs
  <1>5. QED
    BY <1>3, <1>4 DEF EvidenceBacked, RateLimited

\* A disable with its reason given keeps every entry backed.
LEMMA DisableBacked ==
    ASSUME BreakerTypeOK, EvidenceBacked, Remembers,
           NEW k \in Keys, NEW reason \in Reasons, DisableModel(k, reason), Backs(k, reason)
    PROVE  EvidenceBacked'
  <1> DEFINE info == [until |-> NewUntil(k, reason), reason |-> reason]
  <1>1. disabledUntil' = disabledUntil \/ disabledUntil' = [disabledUntil EXCEPT ![k] = info]
    BY DEF DisableModel, NewUntil
  <1>2. CASE disabledUntil' = disabledUntil
    BY <1>2, KeptEntriesBacked
  <1>3. CASE disabledUntil' = [disabledUntil EXCEPT ![k] = info]
    <2>1. /\ disabledUntil'[k].reason = reason
          /\ \A key \in Keys \ {k} : disabledUntil'[key] = disabledUntil[key]
      BY <1>3 DEF BreakerTypeOK
    <2>2. ASSUME NEW s \in Specs
          PROVE  /\ disabledUntil'[s].reason = "unavailable" => "gone" \in evidence'[s]
                 /\ RateLimited(disabledUntil'[s]) => "limited" \in evidence'[s]
      <3>1. CASE s = k
        BY <2>1, <3>1 DEF Backs, RateLimited
      <3>2. CASE s # k
        BY <2>1, <3>2, SpecsAreKeys DEF EvidenceBacked, Remembers, RateLimited
      <3>3. QED
        BY <3>1, <3>2
    <2>3. ASSUME NEW u \in Upstreams, disabledUntil'[<<u, AnyModel>>] # NoEntry
          PROVE  \E m \in Models : "account" \in evidence'[<<u, m>>]
      <3>1. CASE <<u, AnyModel>> = k
        BY <3>1 DEF Backs
      <3>2. CASE <<u, AnyModel>> # k
        <4>1. disabledUntil[<<u, AnyModel>>] # NoEntry
          BY <2>1, <2>3, <3>2 DEF Keys
        <4>2. PICK m \in Models : "account" \in evidence[<<u, m>>]
          BY <4>1 DEF EvidenceBacked
        <4>3. QED
          BY <4>2 DEF Remembers, Specs
      <3>3. QED
        BY <3>1, <3>2
    <2>4. QED
      BY <2>2, <2>3 DEF EvidenceBacked, RateLimited
  <1>4. QED
    BY <1>1, <1>2, <1>3

\* A model is not a wildcard: an account limit is no matter of its own key.
LEMMA SpecIsNoWildcard ==
    ASSUME NEW spec \in Specs, NEW u
    PROVE  spec # <<u, AnyModel>>
  BY NamesAssumption DEF Specs

\* What one request learns is added to what is known.
LEMMA RequestStepRemembers ==
    ASSUME RequestInv, HistoryTypeOK, NEW r \in Requests, RequestStep(r)
    PROVE  Remembers
  <1> DEFINE spec == Current(req[r])
  <1>1. UNCHANGED evidence \/ \E what : Learn(spec, what)
    BY DEF RequestStep, FilterUpstream, FilterModel, LoopUpstream, LoopModel, AnswerStep,
       RateLimitApplied, Parsed, ParsedFailure, StreamEnds, Exhausted, CannotEncode,
       CannotMarshal, TransportError, BodyBreaksOff, RateLimitCounted, AccountLimitReached,
       Overloaded, ModelGone, Rejected, Succeeded, AnsweredPlainly, AnsweredGarbage, historyVars
  <1>2. QED
    BY <1>1 DEF Learn, Remembers, HistoryTypeOK

\* Only trackRateLimit counts.
LEMMA CountedOnlyByLimits ==
    ASSUME RequestInv, NEW r \in Requests, RequestStep(r)
    PROVE  UNCHANGED counted \/ RateLimitCounted(r) \/ RateLimitApplied(r)
  BY DEF RequestStep, FilterUpstream, FilterModel, LoopUpstream, LoopModel, AnswerStep,
     Parsed, ParsedFailure, StreamEnds, Exhausted, CannotEncode, CannotMarshal,
     TransportError, BodyBreaksOff, AccountLimitReached, Overloaded, ModelGone, Rejected,
     Succeeded, AnsweredPlainly, AnsweredGarbage, breakerVars, IsModelDisabled,
     DisableModelUpstream, TrackGlobalRateLimit, ClearRateLimitRetry

\* A count begins with a 429 and is dropped when it takes effect.
LEMMA CountStaysBacked ==
    ASSUME RequestInv, BreakerTypeOK, HistoryTypeOK, CountBacked,
           NEW r \in Requests, RequestStep(r)
    PROVE  CountBacked'
  <1>1. Remembers
    BY RequestStepRemembers
  <1>2. \A c \in Callers : counted[c] # NotCounted => counted[c].key \in Specs
    BY DEF BreakerTypeOK, Counts
  <1>3. CASE UNCHANGED counted
    BY <1>1, <1>2, <1>3 DEF CountBacked, Remembers
  <1>4. CASE RateLimitCounted(r)
    <2> DEFINE spec == Current(req[r])
    <2>1. spec \in Specs
      BY <1>4, LoopStepSpec
         DEF RequestStep, AnswerStep, RateLimitCounted, FilterUpstream, FilterModel, Exhausted,
             StreamEnds, Receives
    <2>2. "limited" \in evidence'[spec]
      BY <1>4, <2>1 DEF RateLimitCounted, Learn, HistoryTypeOK
    <2>3. PICK n : counted' = [counted EXCEPT ![r] = [key |-> spec, retries |-> n]]
      BY <1>4 DEF RateLimitCounted, CountRateLimit
    <2>4. QED
      BY <1>1, <1>2, <2>2, <2>3 DEF CountBacked, Remembers, BreakerTypeOK
  <1>5. CASE RateLimitApplied(r)
    <2>1. counted' = [counted EXCEPT ![r] = NotCounted]
      BY <1>5 DEF RateLimitApplied, DisableCounted
    <2>2. QED
      BY <1>1, <1>2, <2>1 DEF CountBacked, Remembers, BreakerTypeOK
  <1>6. QED
    BY <1>3, <1>4, <1>5, CountedOnlyByLimits

\* Every disable a request asks for has its reason given by then.
LEMMA RequestStepBacked ==
    ASSUME RequestInv, BreakerTypeOK, HistoryTypeOK, EvidenceInv,
           NEW r \in Requests, RequestStep(r)
    PROVE  EvidenceBacked'
  <1> DEFINE spec == Current(req[r])
  <1>1. Remembers /\ EvidenceBacked /\ CountBacked /\ r \in Callers
    BY RequestStepRemembers, CallersAssumption DEF EvidenceInv
  <1>2. CASE \/ FilterUpstream(r) \/ FilterModel(r) \/ LoopUpstream(r) \/ LoopModel(r)
             \/ UNCHANGED disabledUntil
    <2>1. UNCHANGED disabledUntil \/ \E key : IsModelDisabled(key)
      BY <1>2 DEF FilterUpstream, FilterModel, LoopUpstream, LoopModel
    <2>2. \A key \in Keys : disabledUntil'[key] \in {disabledUntil[key], NoEntry}
      BY <2>1 DEF IsModelDisabled, BreakerTypeOK
    <2>3. QED
      BY <1>1, <2>2, KeptEntriesBacked
  <1>3. CASE ~\/ FilterUpstream(r) \/ FilterModel(r) \/ LoopUpstream(r) \/ LoopModel(r)
              \/ UNCHANGED disabledUntil
    <2>1. spec \in Specs
      BY <1>3, LoopStepSpec DEF Exhausted, StreamEnds, breakerVars
    <2>2. spec \in Keys /\ \A u \in Upstreams : spec # <<u, AnyModel>>
      BY <2>1, SpecsAreKeys, SpecIsNoWildcard
    <2> HIDE DEF spec
    <2>3. ASSUME DisableModelUpstream(spec, "error")
          PROVE  EvidenceBacked'
      BY <1>1, <2>2, <2>3, DisableBacked DEF DisableModelUpstream, Backs, Reasons
    <2>4. CASE \/ TransportError(r) \/ BodyBreaksOff(r) \/ Overloaded(r) \/ AnsweredGarbage(r)
               \/ ParsedFailure(r)
      BY <1>3, <2>3, <2>4
         DEF TransportError, BodyBreaksOff, Overloaded, AnsweredGarbage, ParsedFailure,
             breakerVars, spec
    <2>5. CASE ModelGone(r)
      <3>1. DisableModel(spec, "unavailable")
        BY <2>5 DEF ModelGone, DisableModelUpstream, spec
      <3>2. "gone" \in evidence'[spec]
        BY <2>1, <2>5 DEF ModelGone, Learn, HistoryTypeOK, spec
      <3>3. QED
        BY <1>1, <2>2, <3>1, <3>2, DisableBacked DEF Backs, Reasons
    <2>6. CASE AccountLimitReached(r)
      <3> DEFINE key == <<spec[1], AnyModel>>
      <3>1. DisableModel(key, "rate_limit")
        BY <2>6 DEF AccountLimitReached, TrackGlobalRateLimit, spec
      <3>2. key \in Keys /\ key \notin Specs
        BY <2>1, NamesAssumption DEF Keys, Specs
      <3>3. "account" \in evidence'[spec]
        BY <2>1, <2>6 DEF AccountLimitReached, Learn, HistoryTypeOK, spec
      <3>4. spec = <<spec[1], spec[2]>> /\ spec[2] \in Models
        BY <2>1 DEF Specs
      <3>5. Backs(key, "rate_limit")
        BY <3>2, <3>3, <3>4 DEF Backs
      <3>6. QED
        BY <1>1, <3>1, <3>2, <3>5, DisableBacked DEF Reasons
    <2>7. CASE RateLimitApplied(r)
      <3> DEFINE key == counted[r].key
      <3>1. PICK reason \in {"rate_limit", "rate_limit_escalated"} : DisableModel(key, reason)
        BY <2>7 DEF RateLimitApplied, DisableCounted
      <3>2. counted[r] # NotCounted /\ key \in Specs
        BY <1>1, <2>7 DEF RateLimitApplied, DisableCounted, BreakerTypeOK, Counts
      <3>3. "limited" \in evidence'[key]
        BY <1>1, <3>2 DEF CountBacked, Remembers
      <3>4. key \in Keys /\ \A u \in Upstreams : key # <<u, AnyModel>>
        BY <3>2, SpecsAreKeys, SpecIsNoWildcard
      <3> HIDE DEF key
      <3>5. QED
        BY <1>1, <3>1, <3>3, <3>4, DisableBacked DEF Backs, Reasons
    <2>8. CASE \/ CannotEncode(r) \/ CannotMarshal(r) \/ RateLimitCounted(r) \/ Rejected(r)
               \/ Succeeded(r) \/ AnsweredPlainly(r) \/ Parsed(r) \/ StreamEnds(r)
               \/ Exhausted(r)
      BY <1>3, <2>8
         DEF CannotEncode, CannotMarshal, RateLimitCounted, CountRateLimit, Rejected, Succeeded,
             AnsweredPlainly, ClearRateLimitRetry, Parsed, StreamEnds, Exhausted, breakerVars
    <2>9. QED
      BY <1>3, <2>4, <2>5, <2>6, <2>7, <2>8 DEF RequestStep, AnswerStep
  <1>4. QED
    BY <1>2, <1>3

\* No other step disables anything or forgets an answer.
LEMMA EvidenceStep ==
    ASSUME RequestInv, BreakerTypeOK, HistoryTypeOK, EvidenceInv, [FallbackNext]_fallbackVars
    PROVE  EvidenceInv'
  <1>1. ASSUME NEW r \in Requests, RequestStep(r)
        PROVE  EvidenceInv'
    BY <1>1, RequestStepBacked, CountStaysBacked DEF EvidenceInv
  <1>2. CASE ~\E r \in Requests : RequestStep(r)
    <2>1. UNCHANGED <<evidence, counted>>
      BY <1>2 DEF FallbackNext, Arrive, ContextEnds, TimePasses, Tick, Reset,
         ResetCircuitBreakers, ConfigChanges, PublishConfig, RouterReplaced, AllAnswered,
         fallbackVars, historyVars, breakerVars
    <2>2. UNCHANGED disabledUntil \/ Reset
      BY <1>2 DEF FallbackNext, Arrive, ContextEnds, TimePasses, Tick, ConfigChanges,
         PublishConfig, RouterReplaced, AllAnswered, fallbackVars, breakerVars
    <2>3. \A key \in Keys : disabledUntil'[key] \in {disabledUntil[key], NoEntry}
      BY <2>2 DEF Reset, ResetCircuitBreakers
    <2>4. Remembers
      BY <2>1 DEF Remembers
    <2>5. QED
      BY <2>1, <2>3, <2>4, KeptEntriesBacked DEF EvidenceInv, CountBacked
  <1>3. QED
    BY <1>1, <1>2

\* No model is disabled on hearsay: hidden for good only after its upstream
\* said that it does not exist, rate limited only after a 429 of its own, and
\* a whole upstream only after an account limit one of its models met,
\* whatever other requests do between the two critical sections of
\* trackRateLimit (handlers.go:411-434, 798-803).
THEOREM EvidenceAlwaysBacked == FallbackSpec => []EvidenceBacked
  <1>1. FallbackInit => EvidenceInv /\ HistoryTypeOK
    <2> SUFFICES ASSUME FallbackInit PROVE EvidenceInv /\ HistoryTypeOK
      OBVIOUS
    <2>1. HistoryTypeOK
      BY EmptySeq DEF FallbackInit, HistoryTypeOK
    <2>2. CountBacked
      BY DEF FallbackInit, BreakerInit, CountBacked
    <2>3. EvidenceBacked
      BY SpecsAreKeys DEF FallbackInit, BreakerInit, EvidenceBacked, RateLimited, NoEntry, Keys
    <2>4. QED
      BY <2>1, <2>2, <2>3 DEF EvidenceInv
  <1>2. FallbackSpec => []BreakerTypeOK
    BY BreakerRefined, BreakerTypeCorrect DEF UsesBreaker
  <1>3. RequestInv /\ BreakerTypeOK /\ HistoryTypeOK /\ [FallbackNext]_fallbackVars
          => HistoryTypeOK'
    BY HistoryTypeStep
  <1>4. RequestInv /\ BreakerTypeOK /\ HistoryTypeOK /\ EvidenceInv
          /\ [FallbackNext]_fallbackVars => EvidenceInv'
    BY EvidenceStep
  <1>5. EvidenceInv => EvidenceBacked
    BY DEF EvidenceInv
  <1>6. QED
    BY <1>1, <1>2, <1>3, <1>4, <1>5, RequestInvariant, PTL DEF FallbackSpec
=============================================================================
