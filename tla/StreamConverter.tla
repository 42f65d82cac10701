--------------------------- MODULE StreamConverter ---------------------------
(***************************************************************************)
(* StreamConverter.Convert of internal/convert/stream.go: OpenAI chunks    *)
(* come in, Anthropic SSE events go out to the client of SSEMessage.tla.   *)
(*                                                                         *)
(* Each event is a step, because each write may fail and end the stream    *)
(* there.  The parts of a chunk (text, tool call deltas, finish reason)    *)
(* are handled one after the other and nothing of the chunk outlives its   *)
(* part, so a chunk with several parts is that many chunks here.           *)
(*                                                                         *)
(* What upstream sends is constrained by Habits only: without any of them  *)
(* it names each tool call before its arguments, finishes with a call      *)
(* before it begins with the next one or with text, numbers its calls      *)
(* upwards and sends no content after the finish reason.                   *)
(***************************************************************************)
EXTENDS SSEMessage, FiniteSets

CONSTANTS
    Habits,     \* subset of AllHabits
    MaxBlocks   \* bound: no text is sent once that many blocks were begun

AllHabits == { "piecemeal",    \* id, name and arguments of a call in any order
               "unordered",    \* a call with a smaller index begins later
               "interleaved",  \* deltas of a call after another call or text began
               "talkative" }   \* content after a finish reason

ASSUME HabitsAssumption == Habits \subseteq AllHabits
ASSUME MaxBlocksAssumption == MaxBlocks \in Nat

VARIABLES
    place,      \* where Convert stands
    chunk,      \* the chunk in hand
    started,    \* sc.started
    finished,   \* sc.finished
    textOpen,   \* sc.textOpen
    blockIdx,   \* sc.blockIdx
    toolCalls,  \* sc.toolCalls
    usage,      \* sc.outputTokens has been set
    upstream,   \* history: the calls announced, what is being sent, finish reason sent
    reported    \* history: message_delta carried the upstream's usage

vars == <<client, place, chunk, started, finished, textOpen, blockIdx, toolCalls,
          usage, upstream, reported>>

Kinds == {"role", "usage", "text", "tool", "finish", "done", "error"}
Chunks == [kind : Kinds, call : Calls \cup {Nobody}, gives : SUBSET {"id", "name"}, args : BOOLEAN]

Plain(kind) == [kind |-> kind, call |-> Nobody, gives |-> {}, args |-> FALSE]
ToolDelta(call, gives, args) == [kind |-> "tool", call |-> call, gives |-> gives, args |-> args]
NoChunk == Plain("done")

Places == {"receive",        \* at the channel
           "start", "ping",  \* about to write message_start, ping
           "chunk",          \* handling the chunk
           "call", "args",   \* about to write a tool_use block's start, its delta
           "finish",         \* in finish(), the channel is closed
           "returned", "failed"}

CallStates ==
    [ seen : BOOLEAN,               \* the map has an entry
      has : SUBSET {"id", "name"},
      blockIndex : Nat,
      started : BOOLEAN,
      closed : BOOLEAN ]
NewCall == [seen |-> FALSE, has |-> {}, blockIndex |-> 0, started |-> FALSE, closed |-> FALSE]

Senders == [announced : SUBSET Calls, current : Owners \cup {Nobody}, finished : BOOLEAN]

ConverterTypeOK ==
    /\ client \in Clients
    /\ place \in Places /\ chunk \in Chunks
    /\ {started, finished, textOpen, usage, reported} \subseteq BOOLEAN
    /\ blockIdx \in Nat
    /\ toolCalls \in [Calls -> CallStates]
    /\ upstream \in Senders

-----------------------------------------------------------------------------
(* What upstream may send next. *)

MayTalk == upstream.finished => "talkative" \in Habits

\* A delta of a call that upstream has not mentioned yet.
MayBegin(c) ==
    /\ MayTalk
    /\ c.call \notin upstream.announced
    /\ c.gives = {"id", "name"} \/ "piecemeal" \in Habits
    /\ (\A other \in upstream.announced : other < c.call) \/ "unordered" \in Habits

MayContinue(c) ==
    /\ MayTalk
    /\ c.call \in upstream.announced
    /\ upstream.current = c.call \/ "interleaved" \in Habits

Sends(c) ==
    \/ /\ c \in {Plain("role"), Plain("usage"), Plain("done"), Plain("error")}
       /\ UNCHANGED upstream
    \/ /\ c = Plain("text") /\ MayTalk /\ blockIdx < MaxBlocks
       /\ upstream' = [upstream EXCEPT !.current = Text]
    \/ /\ c = Plain("finish") /\ MayTalk
       /\ upstream' = [upstream EXCEPT !.finished = TRUE]
    \/ /\ \E call \in Calls, gives \in SUBSET {"id", "name"}, args \in BOOLEAN :
             c = ToolDelta(call, gives, args)
       /\ MayBegin(c) \/ MayContinue(c)
       /\ upstream' = [upstream EXCEPT !.announced = @ \cup {c.call}, !.current = c.call]

-----------------------------------------------------------------------------
(* Convert: the head of its loop. *)

converterVars == <<started, finished, textOpen, blockIdx, toolCalls, usage>>
historyVars == <<upstream, reported>>

Receive(c) ==
    /\ place = "receive"
    /\ Sends(c)
    /\ chunk' = c
    /\ place' = IF c.kind = "error" THEN "failed"
                ELSE IF c.kind = "done" THEN "receive"
                ELSE IF started THEN "chunk" ELSE "start"
    /\ UNCHANGED <<client, converterVars, reported>>

\* The channel is closed; finish() opens the message if nothing has come.
ChannelCloses ==
    /\ place = "receive"
    /\ place' = IF started THEN "finish" ELSE "start"
    /\ UNCHANGED <<client, chunk, converterVars, historyVars>>

WriteMessageStart ==
    /\ place = "start"
    /\ Deliver(Message("message_start"))
    /\ place' = "ping"
    /\ UNCHANGED <<chunk, converterVars, historyVars>>

WritePing ==
    /\ place = "ping"
    /\ Deliver(Message("ping"))
    /\ IF chunk = NoChunk
          THEN place' = "finish" /\ UNCHANGED started
          ELSE place' = "chunk" /\ started' = TRUE
    /\ UNCHANGED <<chunk, finished, textOpen, blockIdx, toolCalls, usage, historyVars>>

\* Done with this chunk.
NextChunk == place' = "receive" /\ chunk' = NoChunk

\* A chunk that writes nothing: a role, a usage report, a second finish reason.
Skip ==
    /\ place = "chunk"
    /\ chunk.kind \in {"role", "usage"} \/ (chunk.kind = "finish" /\ finished)
    /\ usage' = (usage \/ chunk.kind = "usage")
    /\ NextChunk
    /\ UNCHANGED <<client, started, finished, textOpen, blockIdx, toolCalls, historyVars>>

-----------------------------------------------------------------------------
(* Closing blocks. *)

OpenCalls == {call \in Calls : toolCalls[call].started /\ ~toolCalls[call].closed}

\* closeOpenBlocks is running, or about to: before a new text block, at the
\* first finish reason, and when the channel is closed.
ClosesAll ==
    \/ place = "chunk" /\ chunk.kind = "text" /\ ~textOpen
    \/ place = "chunk" /\ chunk.kind = "finish" /\ ~finished
    \/ place = "finish"

\* A tool call not seen before closes the text block.
ClosesText == place = "chunk" /\ chunk.kind = "tool" /\ ~toolCalls[chunk.call].seen

\* Mutant: textOpen is not reset.
CloseTextBlockOnly ==
    /\ textOpen
    /\ ClosesAll \/ ClosesText
    /\ Deliver(Block("stop", blockIdx - 1, Text))
    /\ UNCHANGED <<place, chunk, converterVars, historyVars>>

CloseTextBlock ==
    /\ textOpen
    /\ ClosesAll \/ ClosesText
    /\ Deliver(Block("stop", blockIdx - 1, Text))
    /\ textOpen' = FALSE
    /\ UNCHANGED <<place, chunk, started, finished, blockIdx, toolCalls, usage, historyVars>>

\* Closing all goes by ascending index; closePreviousToolCalls takes the calls
\* before the one that starts in the order of the map, which is any.
CloseToolBlock(call) ==
    /\ call \in OpenCalls
    /\ \/ ClosesAll /\ ~textOpen /\ \A other \in OpenCalls : call <= other
       \/ place = "call" /\ call < chunk.call
    /\ Deliver(Block("stop", toolCalls[call].blockIndex, call))
    /\ toolCalls' = [toolCalls EXCEPT ![call].closed = TRUE]
    /\ UNCHANGED <<place, chunk, started, finished, textOpen, blockIdx, usage, historyVars>>

AllClosed == ~textOpen /\ OpenCalls = {}

-----------------------------------------------------------------------------
(* Text. *)

OpenTextBlock ==
    /\ place = "chunk" /\ chunk.kind = "text" /\ AllClosed
    /\ Deliver(Block("start", blockIdx, Text))
    /\ blockIdx' = blockIdx + 1
    /\ textOpen' = TRUE
    /\ UNCHANGED <<place, chunk, started, finished, toolCalls, usage, historyVars>>

WriteTextDelta ==
    /\ place = "chunk" /\ chunk.kind = "text" /\ textOpen
    /\ Deliver(Block("delta", blockIdx - 1, Text))
    /\ NextChunk
    /\ UNCHANGED <<converterVars, historyVars>>

-----------------------------------------------------------------------------
(* Tool calls: handleToolCallDelta. *)

\* The arguments come last.
ToArguments == IF chunk.args THEN place' = "args" /\ UNCHANGED chunk ELSE NextChunk

\* Mutant: the index of the block before.
NoteCallBefore ==
    LET call == chunk.call
        state == toolCalls[call]
        noted == [state EXCEPT !.seen = TRUE, !.has = @ \cup chunk.gives,
                               !.blockIndex = IF state.seen THEN @ ELSE blockIdx - 1]
    IN
    /\ place = "chunk" /\ chunk.kind = "tool"
    /\ ~(ClosesText /\ textOpen)
    /\ toolCalls' = [toolCalls EXCEPT ![call] = noted]
    /\ IF ~noted.started /\ noted.has = {"id", "name"}
          THEN place' = "call" /\ UNCHANGED chunk
          ELSE ToArguments
    /\ UNCHANGED <<client, started, finished, textOpen, blockIdx, usage, historyVars>>

\* Look the call up, or enter it with the next block index; note id and name.
NoteCall ==
    LET call == chunk.call
        state == toolCalls[call]
        noted == [state EXCEPT !.seen = TRUE, !.has = @ \cup chunk.gives,
                               !.blockIndex = IF state.seen THEN @ ELSE blockIdx]
    IN
    /\ place = "chunk" /\ chunk.kind = "tool"
    /\ ~(ClosesText /\ textOpen)
    /\ toolCalls' = [toolCalls EXCEPT ![call] = noted]
    /\ IF ~noted.started /\ noted.has = {"id", "name"}
          THEN place' = "call" /\ UNCHANGED chunk
          ELSE ToArguments
    /\ UNCHANGED <<client, started, finished, textOpen, blockIdx, usage, historyVars>>

\* Mutant: blockIdx stays.
StartToolBlockUncounted ==
    LET call == chunk.call IN
    /\ place = "call"
    /\ \A other \in OpenCalls : ~(other < call)
    /\ Deliver(Block("start", toolCalls[call].blockIndex, call))
    /\ toolCalls' = [toolCalls EXCEPT ![call].started = TRUE]
    /\ ToArguments
    /\ UNCHANGED <<started, finished, textOpen, blockIdx, usage, historyVars>>

StartToolBlock ==
    LET call == chunk.call IN
    /\ place = "call"
    /\ \A other \in OpenCalls : ~(other < call)
    /\ Deliver(Block("start", toolCalls[call].blockIndex, call))
    /\ toolCalls' = [toolCalls EXCEPT ![call].started = TRUE]
    /\ blockIdx' = blockIdx + 1
    /\ ToArguments
    /\ UNCHANGED <<started, finished, textOpen, usage, historyVars>>

WriteToolInput ==
    /\ place = "args"
    /\ Deliver(Block("delta", toolCalls[chunk.call].blockIndex, chunk.call))
    /\ NextChunk
    /\ UNCHANGED <<converterVars, historyVars>>

-----------------------------------------------------------------------------
(* The end of the message. *)

\* Mutant: finished is not set.
WriteMessageDeltaAgain ==
    /\ \/ place = "chunk" /\ chunk.kind = "finish" /\ NextChunk
       \/ place = "finish" /\ UNCHANGED <<place, chunk>>
    /\ ~finished /\ AllClosed
    /\ Deliver(Message("message_delta"))
    /\ finished' = (place = "finish")
    /\ reported' = usage
    /\ UNCHANGED <<started, textOpen, blockIdx, toolCalls, usage, upstream>>

WriteMessageDelta ==
    /\ \/ place = "chunk" /\ chunk.kind = "finish" /\ NextChunk
       \/ place = "finish" /\ UNCHANGED <<place, chunk>>
    /\ ~finished /\ AllClosed
    /\ Deliver(Message("message_delta"))
    /\ finished' = TRUE
    /\ reported' = usage
    /\ UNCHANGED <<started, textOpen, blockIdx, toolCalls, usage, upstream>>

\* Mutant: what was opened after the finish reason stays open.
WriteMessageStopAtOnce ==
    /\ place = "finish" /\ finished
    /\ Deliver(Message("message_stop"))
    /\ place' = "returned"
    /\ UNCHANGED <<chunk, converterVars, historyVars>>

WriteMessageStop ==
    /\ place = "finish" /\ finished /\ AllClosed
    /\ Deliver(Message("message_stop"))
    /\ place' = "returned"
    /\ UNCHANGED <<chunk, converterVars, historyVars>>

\* A write fails: the client has gone.
WriteFails ==
    /\ \/ place \in {"start", "ping", "call", "args", "finish"}
       \/ place = "chunk" /\ chunk.kind = "text"
       \/ place = "chunk" /\ chunk.kind = "finish" /\ ~finished
       \/ ClosesText /\ textOpen
    /\ place' = "failed"
    /\ UNCHANGED <<client, chunk, converterVars, historyVars>>

Returned == place \in {"returned", "failed"} /\ UNCHANGED vars

-----------------------------------------------------------------------------

ConverterInit ==
    /\ MessageInit
    /\ place = "receive" /\ chunk = NoChunk
    /\ started = FALSE /\ finished = FALSE /\ textOpen = FALSE
    /\ blockIdx = 0
    /\ toolCalls = [call \in Calls |-> NewCall]
    /\ usage = FALSE
    /\ upstream = [announced |-> {}, current |-> Nobody, finished |-> FALSE]
    /\ reported = FALSE

ConverterNext ==
    \/ \E c \in Chunks : Receive(c)
    \/ ChannelCloses \/ WriteMessageStart \/ WritePing \/ Skip
    \/ CloseTextBlock
    \/ \E call \in Calls : CloseToolBlock(call)
    \/ OpenTextBlock \/ WriteTextDelta
    \/ NoteCall \/ StartToolBlock \/ WriteToolInput
    \/ WriteMessageDelta \/ WriteMessageStop
    \/ WriteFails \/ Returned

ConverterSpec == ConverterInit /\ [][ConverterNext]_vars

-----------------------------------------------------------------------------
(* Properties *)

\* Whatever upstream sends and wherever a write fails, the message itself
\* begins once, is closed once and stops once, in that order ("a Messages
\* request has exactly one lifecycle", stream.go:74).
OneLifecycle == "lifecycle" \notin client.faults

\* A stream that ends without an error is a whole message to its client,
\* even if nothing ever came from upstream (stream.go:135-160).
EndsWhole == place = "returned" => client.phase = "stopped" /\ client.open = Nobody

\* If upstream finishes with each call before the next, every event is one the
\* client expects: blocks follow one another, are numbered without gaps, and
\* each delta goes to the open block of its own text or call.
WellFormed == MessageSpec

\* What the converter believes of the client's blocks is so: the count, and
\* which block is open, at every event of a stream without faults.
BlocksAgree ==
    client.faults = {} /\ place # "failed" =>
        /\ blockIdx = client.count
        /\ textOpen <=> client.open = Text
        /\ \A call \in Calls : call \in OpenCalls <=> client.open = call
===============================================================================
