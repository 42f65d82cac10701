---------------------------- MODULE StreamPipeline ----------------------------
(***************************************************************************)
(* One streamed answer on its way from the upstream's body to the client:  *)
(* the goroutines of parseStreamInternal (openai/stream.go), of            *)
(* parseCodexStreamInternal and ParseResponsesStreamWithTimeout            *)
(* (codex/stream.go) and of ToOpenAIStream (codex/dispatch.go), the        *)
(* monitor of IdleTimeoutReader, and handleStream, which converts what it  *)
(* receives and writes it to the client.                                   *)
(*                                                                         *)
(*   chat       reader -> parser -> handler                                *)
(*   responses  reader -> parser -> guard -> adapter -> handler            *)
(*                                                                         *)
(* Each arrow is a bounded channel, named for the goroutine that sends on  *)
(* it and closed when that goroutine returns.  A line stands for a whole   *)
(* event: "data" is content, "end" is [DONE] or response.completed, "bad"  *)
(* is a line that cannot be decoded or response.failed.                    *)
(***************************************************************************)
EXTENDS Naturals, Sequences, SequencesExt

CONSTANTS
    Protocols,    \* subset of AllProtocols
    LinesCap,     \* capacity of the channel of lines
    ChunksCap,    \* capacity of each channel of chunks
    IdleTicks,    \* ticks of the monitor without a read that make a timeout
    Scripts       \* bound: per protocol, what upstream may send, or a part of it

AllProtocols == {"chat", "responses"}

ASSUME ProtocolsAssumption == Protocols \subseteq AllProtocols
ASSUME CapAssumption == LinesCap \in Nat \ {0} /\ ChunksCap \in Nat \ {0}
ASSUME IdleAssumption == IdleTicks \in Nat \ {0}

VARIABLES
    protocol,      \* chosen by the route
    sent, wire,    \* upstream: the lines sent, and whether more may come
    received,      \* lines that Read has returned to the scanner
    scanned,       \* lines the scanner has returned
    bodyClosed,    \* the response body is closed
    reader,        \* IdleTimeoutReader: closed, age of lastRead, a tick due, timedOut
    channel,       \* what is in each channel
    hold,          \* what each goroutine is about to send or write
    leaving,       \* goroutines that return after that
    running,       \* goroutines that have not returned
    saw,           \* the guard's terminal and failed
    clientGone,    \* the client has left
    written        \* the lines whose content the client has, "finish", "stop"

vars == <<protocol, sent, wire, received, scanned, bodyClosed, reader, channel, hold,
          leaving, running, saw, clientGone, written>>

Chain == <<"reader", "parser", "guard", "adapter", "handler">>
Goroutines == {Chain[i] : i \in DOMAIN Chain}
Senders == Goroutines \ {"handler"}

\* The goroutines of a protocol and who sends to whom among them.
Members(p) == IF p = "chat" THEN {"reader", "parser", "handler"} ELSE Goroutines
From(g) ==
    IF g = "parser" THEN "reader"
    ELSE IF g = "guard" THEN "parser"
    ELSE IF g = "adapter" THEN "guard"
    ELSE IF protocol = "chat" THEN "parser" ELSE "adapter"

Cap(g) == IF g = "reader" THEN LinesCap ELSE ChunksCap

LineKinds == {"data", "end", "bad"}
ItemKinds == LineKinds \cup {"error", "finish", "done", "stop"}
Items == [kind : ItemKinds, line : Nat]
Item(kind) == [kind |-> kind, line |-> 0]

PipelineTypeOK ==
    /\ protocol \in Protocols
    /\ sent \in Seq(LineKinds) /\ wire \in {"open", "ended", "broken"}
    /\ received \in 0..Len(sent) /\ scanned \in 0..received
    /\ bodyClosed \in BOOLEAN /\ clientGone \in BOOLEAN
    /\ reader \in [closed : BOOLEAN, age : 0..IdleTicks, tick : BOOLEAN, timedOut : BOOLEAN]
    /\ channel \in [Senders -> Seq(Items)]
    /\ \A g \in Senders : Len(channel[g]) <= Cap(g)
    /\ hold \in [Goroutines -> Seq(Items)]
    /\ leaving \subseteq running /\ running \subseteq Members(protocol)
    /\ saw \subseteq {"terminal", "failed"}
    /\ written \in Seq(Items)

-----------------------------------------------------------------------------
(* The upstream and the client. *)

upstreamVars == <<sent, wire>>
readerVars == <<received, scanned, bodyClosed, reader>>

UpstreamSends(kind) ==
    /\ wire = "open" /\ ~bodyClosed
    /\ \E script \in Scripts[protocol] : IsPrefix(Append(sent, kind), script)
    /\ sent' = Append(sent, kind)
    /\ UNCHANGED <<protocol, wire, readerVars, channel, hold, leaving, running, saw,
                   clientGone, written>>

UpstreamStops(how) ==
    /\ wire = "open" /\ ~bodyClosed
    /\ wire' = how
    /\ UNCHANGED <<protocol, sent, readerVars, channel, hold, leaving, running, saw,
                   clientGone, written>>

\* net/http cancels the request's context when its client goes.
ClientLeaves ==
    /\ ~clientGone /\ "handler" \in running
    /\ clientGone' = TRUE
    /\ UNCHANGED <<protocol, upstreamVars, readerVars, channel, hold, leaving, running, saw,
                   written>>

\* And when the handler returns.
ContextDone == clientGone \/ "handler" \notin running

-----------------------------------------------------------------------------
(* What all the goroutines do. *)

\* At the head of its loop.
Idle(g) == g \in running /\ hold[g] = <<>> /\ g \notin leaving

\* g takes the next item of its channel and goes on to send items.
Takes(g, items, leaves) ==
    /\ channel' = [channel EXCEPT ![From(g)] = Tail(@)]
    /\ hold' = [hold EXCEPT ![g] = items]
    /\ leaving' = IF leaves THEN leaving \cup {g} ELSE leaving
    /\ UNCHANGED <<protocol, upstreamVars, readerVars, running, clientGone, written>>

\* g goes on to send items and return.
Leaves(g, items) ==
    /\ hold' = [hold EXCEPT ![g] = items]
    /\ leaving' = leaving \cup {g}
    /\ UNCHANGED <<protocol, upstreamVars, channel, running, saw, clientGone, written>>

NextItem(g) == Head(channel[From(g)])
Ready(g) == Idle(g) /\ channel[From(g)] # <<>>
Ended(g) == Idle(g) /\ channel[From(g)] = <<>> /\ From(g) \notin running

Full(g) == Len(channel[g]) >= Cap(g)

Sends(g) ==
    /\ g \in running \cap Senders
    /\ hold[g] # <<>> /\ ~Full(g)
    /\ channel' = [channel EXCEPT ![g] = Append(@, Head(hold[g]))]
    /\ hold' = [hold EXCEPT ![g] = Tail(@)]
    /\ UNCHANGED <<protocol, upstreamVars, readerVars, leaving, running, saw, clientGone, written>>

\* The monitor has stopped, and with it the clock of the body.
Closed(timedOut) == [closed |-> TRUE, age |-> 0, tick |-> FALSE, timedOut |-> timedOut]

\* Returning closes the channel; reader and parser also close the wrapped body
\* (the parser then its done channel), the handler closes the body.
Returns(g) ==
    /\ g \in running \cap leaving /\ hold[g] = <<>>
    /\ running' = running \ {g}
    /\ bodyClosed' = (bodyClosed \/ g \in {"reader", "parser", "handler"})
    /\ reader' = IF g \in {"reader", "parser"} THEN Closed(reader.timedOut) ELSE reader
    /\ leaving' = leaving \ {g}
    /\ UNCHANGED <<protocol, upstreamVars, received, scanned, channel, hold, saw, clientGone,
                   written>>

-----------------------------------------------------------------------------
(* The goroutine that reads lines from the body. *)

ReaderReceives ==
    /\ Idle("reader") /\ ~bodyClosed
    /\ scanned = received /\ received < Len(sent)
    /\ received' = Len(sent)
    /\ reader' = [reader EXCEPT !.age = 0]
    /\ UNCHANGED <<protocol, upstreamVars, scanned, bodyClosed, channel, hold, leaving, running,
                   saw, clientGone, written>>

\* Mutant: the lines share the scanner's buffer, as with scanner.Bytes().
ReaderScansShared ==
    /\ Idle("reader")
    /\ scanned < received
    /\ scanned' = scanned + 1
    /\ hold' = [hold EXCEPT !["reader"] = <<[kind |-> sent[scanned + 1], line |-> received]>>]
    /\ UNCHANGED <<protocol, upstreamVars, received, bodyClosed, reader, channel, leaving,
                   running, saw, clientGone, written>>

ReaderScans ==
    /\ Idle("reader")
    /\ scanned < received
    /\ scanned' = scanned + 1
    /\ hold' = [hold EXCEPT !["reader"] = <<[kind |-> sent[scanned + 1], line |-> scanned + 1]>>]
    /\ UNCHANGED <<protocol, upstreamVars, received, bodyClosed, reader, channel, leaving,
                   running, saw, clientGone, written>>

\* The scanner stops: an error, or the end of a body that timed out, is told.
ReaderStops ==
    /\ Idle("reader")
    /\ scanned = received
    /\ bodyClosed \/ wire = "broken" \/ (wire = "ended" /\ received = Len(sent))
    /\ Leaves("reader", IF bodyClosed \/ wire = "broken" \/ reader.timedOut
                          THEN <<Item("error")>> ELSE <<>>)
    /\ UNCHANGED readerVars

\* Mutant: the line is sent without a select.
ReaderInsists == FALSE

\* The other case of its select: done is closed.
ReaderAbandons ==
    /\ "reader" \in running /\ hold["reader"] # <<>>
    /\ "parser" \notin running
    /\ Leaves("reader", <<>>)
    /\ UNCHANGED readerVars

ReaderStep ==
    ReaderReceives \/ ReaderScans \/ ReaderStops \/ ReaderAbandons
    \/ Sends("reader") \/ Returns("reader")

-----------------------------------------------------------------------------
(* The monitor of the body.  A tick is half the idle timeout's ticker. *)

\* Only then does time pass unnoticed by the reader.
ReaderWaits ==
    \/ "reader" \notin running
    \/ hold["reader"] # <<>> /\ Full("reader")
    \/ Idle("reader") /\ ~bodyClosed /\ wire = "open" /\ scanned = Len(sent)

TimePasses ==
    /\ ReaderWaits
    /\ ~reader.closed /\ ~reader.tick
    /\ reader' = [reader EXCEPT !.age = IF @ < IdleTicks THEN @ + 1 ELSE @, !.tick = TRUE]
    /\ UNCHANGED <<protocol, upstreamVars, received, scanned, bodyClosed, channel, hold, leaving,
                   running, saw, clientGone, written>>

\* Mutant: the timeout is noted, the body stays open.
MonitorNotes ==
    LET stalled == reader.age >= IdleTicks IN
    /\ reader.tick /\ ~reader.closed
    /\ reader' = IF stalled THEN Closed(TRUE) ELSE [reader EXCEPT !.tick = FALSE]
    /\ UNCHANGED <<protocol, upstreamVars, received, scanned, bodyClosed, channel, hold, leaving,
                   running, saw, clientGone, written>>

MonitorChecks ==
    LET stalled == reader.age >= IdleTicks IN
    /\ reader.tick /\ ~reader.closed
    /\ reader' = IF stalled THEN Closed(TRUE) ELSE [reader EXCEPT !.tick = FALSE]
    /\ bodyClosed' = (bodyClosed \/ stalled)
    /\ UNCHANGED <<protocol, upstreamVars, received, scanned, channel, hold, leaving, running, saw,
                   clientGone, written>>

-----------------------------------------------------------------------------
(* The parser. *)

\* [DONE] and a line it cannot decode end a chat stream; a Responses stream
\* goes on until its body ends.
Parsed(kind) ==
    IF kind = "data" THEN "data" ELSE IF kind = "end" THEN "done" ELSE "error"

ParserTakes ==
    LET line == NextItem("parser")
        last == line.kind = "error" \/ (protocol = "chat" /\ line.kind # "data")
    IN
    /\ Ready("parser")
    /\ Takes("parser", <<[line EXCEPT !.kind = Parsed(line.kind)]>>, last)
    /\ UNCHANGED saw

ParserCancelled ==
    /\ Idle("parser") /\ ContextDone
    /\ Leaves("parser", <<Item("error")>>)
    /\ UNCHANGED readerVars

\* Mutant: a body that ends early passes for a whole one.
ParserEndsQuietly ==
    /\ Ended("parser")
    /\ Leaves("parser", <<>>)
    /\ UNCHANGED readerVars

\* Mutant: as in a chat stream, the end of the body is an error.
ParserEndsWithError ==
    /\ Ended("parser")
    /\ Leaves("parser", <<Item("error")>>)
    /\ UNCHANGED readerVars

\* The body has ended without [DONE].
ParserEnds ==
    /\ Ended("parser")
    /\ Leaves("parser", IF protocol = "chat" THEN <<Item("error")>> ELSE <<>>)
    /\ UNCHANGED readerVars

ParserStep == ParserTakes \/ ParserCancelled \/ ParserEnds \/ Sends("parser") \/ Returns("parser")

-----------------------------------------------------------------------------
(* ParseResponsesStreamWithTimeout and ToOpenAIStream. *)

\* Mutant: every kind of chunk is noted.
GuardTakesAll ==
    LET chunk == NextItem("guard") IN
    /\ Ready("guard")
    /\ Takes("guard", <<chunk>>, FALSE)
    /\ saw' = saw \cup {chunk.kind}

GuardTakes ==
    LET chunk == NextItem("guard") IN
    /\ Ready("guard")
    /\ Takes("guard", <<chunk>>, FALSE)
    /\ saw' = saw \cup (IF chunk.kind = "done" THEN {"terminal"}
                        ELSE IF chunk.kind = "error" THEN {"failed"} ELSE {})

\* Neither a terminal event nor an error came before the end.
GuardEnds ==
    /\ Ended("guard")
    /\ Leaves("guard", IF saw = {} THEN <<Item("error")>> ELSE <<>>)
    /\ UNCHANGED readerVars

GuardStep == GuardTakes \/ GuardEnds \/ Sends("guard") \/ Returns("guard")

\* The finish reason goes before the end; an error is the last thing sent.
AdapterTakes ==
    LET chunk == NextItem("adapter") IN
    /\ Ready("adapter")
    /\ Takes("adapter",
             IF chunk.kind = "done" THEN <<Item("finish"), Item("done")>> ELSE <<chunk>>,
             chunk.kind = "error")
    /\ UNCHANGED saw

AdapterEnds ==
    /\ Ended("adapter")
    /\ Leaves("adapter", <<>>)
    /\ UNCHANGED readerVars

AdapterStep == AdapterTakes \/ AdapterEnds \/ Sends("adapter") \/ Returns("adapter")

-----------------------------------------------------------------------------
(* handleStream with StreamConverter.Convert, which writes each chunk before *)
(* it takes the next, skips "done" and stops at an error.                    *)

HandlerTakes ==
    LET chunk == NextItem("handler") IN
    /\ Ready("handler")
    /\ Takes("handler", IF chunk.kind \in {"error", "done"} THEN <<>> ELSE <<chunk>>,
             chunk.kind = "error")
    /\ UNCHANGED saw

\* The channel is closed: finish().
HandlerEnds ==
    /\ Ended("handler")
    /\ Leaves("handler", <<Item("stop")>>)
    /\ UNCHANGED readerVars

\* The client takes what is written.
HandlerWrites ==
    /\ "handler" \in running /\ hold["handler"] # <<>> /\ ~clientGone
    /\ written' = Append(written, Head(hold["handler"]))
    /\ hold' = [hold EXCEPT !["handler"] = Tail(@)]
    /\ UNCHANGED <<protocol, upstreamVars, readerVars, channel, leaving, running, saw, clientGone>>

HandlerWriteFails ==
    /\ "handler" \in running /\ hold["handler"] # <<>> /\ clientGone
    /\ Leaves("handler", <<>>)
    /\ UNCHANGED readerVars

HandlerStep ==
    HandlerTakes \/ HandlerEnds \/ HandlerWrites \/ HandlerWriteFails \/ Returns("handler")

-----------------------------------------------------------------------------

PipelineInit ==
    /\ protocol \in Protocols
    /\ sent = <<>> /\ wire = "open"
    /\ received = 0 /\ scanned = 0
    /\ bodyClosed = FALSE
    /\ reader = [closed |-> FALSE, age |-> 0, tick |-> FALSE, timedOut |-> FALSE]
    /\ channel = [g \in Senders |-> <<>>]
    /\ hold = [g \in Goroutines |-> <<>>]
    /\ leaving = {} /\ running = Members(protocol)
    /\ saw = {}
    /\ clientGone = FALSE
    /\ written = <<>>

\* A goroutine that waits at a full channel nobody will read, or for one that
\* does.  The reader alone looks whether its receiver has returned.
Blocked(g) == g \in running \cap Senders /\ hold[g] # <<>> /\ Full(g)
Between(g, last) == {Chain[i] : i \in {i \in DOMAIN Chain :
                        \E j, k \in DOMAIN Chain : Chain[j] = g /\ Chain[k] = last /\ j <= i /\ i <= k}}
Stranded(g) ==
    \E last \in (running \cap Senders) \ {"reader"} :
        /\ \A h \in Between(g, last) : Blocked(h)
        /\ \E to \in Members(protocol) \ {"reader"} : From(to) = last /\ to \notin running
        /\ g \in Between(g, last)

\* The request is over; what it leaves behind is for EndsOrStranded to say.
Over ==
    /\ "handler" \notin running
    /\ UNCHANGED vars

PipelineNext ==
    \/ \E kind \in LineKinds : UpstreamSends(kind)
    \/ \E how \in {"ended", "broken"} : UpstreamStops(how)
    \/ ClientLeaves
    \/ ReaderStep \/ TimePasses \/ MonitorChecks
    \/ ParserStep \/ GuardStep \/ AdapterStep \/ HandlerStep
    \/ Over

PipelineSpec == PipelineInit /\ [][PipelineNext]_vars

\* Goroutines run, time passes, and a client that stays reads in the end.
FairPipelineSpec ==
    /\ PipelineSpec
    /\ WF_vars(ReaderStep) /\ WF_vars(ParserStep) /\ WF_vars(GuardStep)
    /\ WF_vars(AdapterStep) /\ WF_vars(HandlerStep)
    /\ WF_vars(TimePasses) /\ WF_vars(MonitorChecks)

-----------------------------------------------------------------------------
(* Properties *)

Sent(kind, n) == {i \in 1..n : sent[i] = kind}
Has(kind) == \E i \in DOMAIN written : written[i].kind = kind

\* The lines whose content is among the first n items written.
Content(n) == {written[i].line : i \in {i \in 1..n : written[i].kind = "data"}}

\* The client gets the content in the order upstream sent it: through four
\* buffers and a reader ahead of the parser nothing is lost, repeated or
\* overtaken.
InOrder ==
    \A i \in DOMAIN written :
        written[i].kind = "data" =>
            /\ written[i].line \in Sent("data", scanned)
            /\ Content(i - 1) = {j \in Sent("data", scanned) : j < written[i].line}

\* A message that is closed as a whole one is whole: upstream sent its end
\* ("rather than silently presenting truncated output as success",
\* openai/stream.go:93-94), no failure, and all the content before the end.
WholeIsComplete ==
    Has("stop") =>
        \E end \in Sent("end", scanned) :
            /\ Sent("bad", end) = {}
            /\ Sent("data", end) \subseteq Content(Len(written))

Cut == "handler" \notin running /\ ~Has("stop")

\* A message is cut for a reason: the client went, upstream stalled, broke off
\* or failed, or ended without its end.  Of a chat stream whose [DONE] has been
\* read only the client can still cut it; a Responses stream has to end its body
\* too, and within the idle timeout.
CutForReason ==
    Cut /\ ~clientGone =>
        /\ reader.timedOut \/ wire # "open" \/ Sent("bad", scanned) # {}
        /\ wire = "ended" /\ ~reader.timedOut => Sent("bad", scanned) # {} \/ Sent("end", scanned) = {}
        /\ protocol = "chat" => \A end \in Sent("end", scanned) : Sent("bad", end) # {}

\* Whatever upstream and client do, the request ends: a silent upstream is cut
\* off by the monitor.
RequestEnds == <>("handler" \notin running)

\* After that every goroutine ends, except behind a channel that was full when
\* its receiver returned.
EndsOrStranded == <>[](\A g \in running : Stranded(g))
===============================================================================
