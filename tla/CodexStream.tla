----------------------------- MODULE CodexStream -----------------------------
(***************************************************************************)
(* A streamed answer of the Responses API on its way through               *)
(* processCodexEvent (codex/stream.go), ParseResponsesStreamWithTimeout    *)
(* and ToOpenAIStream (codex/dispatch.go) into StreamConverter, next to    *)
(* what ParseResponse would make of the same events for a client that does *)
(* not stream.                                                             *)
(*                                                                         *)
(* The goroutines are connected by FIFO channels only, so each event is    *)
(* carried through to the client before the next one comes; StreamPipeline *)
(* has their interleavings.                                                *)
(*                                                                         *)
(* A response is a sequence of items, each a text, a call, or a bare call  *)
(* without arguments.  Its id is its position, and ids says which of its   *)
(* events carry it: its announcement, its deltas, the list of a terminal   *)
(* event.  index is the output_index its events carry.  Upstream may do    *)
(* anything with them, and manners keeps what it did that an orderly       *)
(* upstream would not.  "incomplete" is incomplete for want of output      *)
(* tokens; for any other reason a response counts as completed.            *)
(***************************************************************************)
EXTENDS StreamConverter, Sequences

CONSTANTS
    Outputs,       \* set of sequences of items
    MaxTerminals   \* bound: terminal events of a response

Ids == {"added", "delta", "listed"}
Items ==
    [ kind : {"text", "call", "bare"},
      index : Calls,
      ids : SUBSET Ids,
      maxDeltas : Nat ]    \* bound: its deltas

ASSUME OutputsAssumption == Outputs \subseteq Seq(Items)
\* What has no index of its own gets its position, counted from 0.
ASSUME PositionsAssumption == \A o \in Outputs : \A i \in DOMAIN o : i - 1 \in Calls
ASSUME TerminalsAssumption == MaxTerminals \in Nat

VARIABLES
    output,      \* the items of this response
    backend,     \* what has been sent of them
    manners,     \* history: how upstream departed from order
    streamed,    \* streamedText and streamedArgs
    itemIndex,   \* itemIndex, by id
    hasToolUse,  \* of ToOpenAIStream
    guard,       \* terminal and failed of ParseResponsesStreamWithTimeout
    pending,     \* what is on its way to the converter
    forwarded,   \* history: how often the converter got each item, in parts and whole
    reason       \* history: the finish reason message_delta carries

codexVars == <<output, backend, manners, streamed, itemIndex, hasToolUse, guard, pending,
               forwarded, reason>>

Positions == DOMAIN output
IsCall(i) == output[i].kind # "text"

Carries(i, event) == event \in output[i].ids
\* The id an event gives for an item; 0 stands for none, the empty string.
Id(i, event) == IF Carries(i, event) THEN i ELSE 0

Statuses == {"completed", "incomplete", "failed"}
Manners == { "interleaved",   \* an event of an item after one of a later item
             "unannounced",   \* arguments of a call, or an answer with it, but no start
             "late",          \* arguments only in the terminal event, when the block
                              \* of the call is no longer the last
             "omits",         \* an item in the whole answer or in the stream only
             "belated",       \* usage, but not in the first terminal event
             "after" }        \* an event after a terminal one

Backends ==
    [ announced : SUBSET Positions,      \* output_item.added was sent
      deltas : [Positions -> Nat],
      done : SUBSET Positions,           \* output_item.done was sent
      current : {0} \cup Positions,      \* the last item of an event
      terminals : 0..MaxTerminals,
      status : Statuses \cup {"in_progress"},
      full : BOOLEAN,                    \* the last terminal event listed the items
      open : BOOLEAN ]

Reasons == {"stop", "length", "tool_calls"}

\* An OpenAI chunk, the item it is about and whether it has all of it.
Cargo == [chunk : Chunks, item : {0} \cup Positions, whole : BOOLEAN, reason : Reasons]
Carry(c, i, whole) == [chunk |-> c, item |-> i, whole |-> whole, reason |-> "stop"]

CodexTypeOK ==
    /\ ConverterTypeOK
    /\ output \in Outputs
    /\ backend \in Backends /\ manners \subseteq Manners
    /\ streamed \subseteq Positions
    /\ itemIndex \in [{0} \cup Positions -> Calls \cup {Nobody}]
    /\ hasToolUse \in BOOLEAN /\ guard \subseteq {"terminal", "failed"}
    /\ pending \in Seq(Cargo)
    /\ forwarded \in [Positions -> [parts : Nat, wholes : Nat]]
    /\ reason \in Reasons \cup {"none"}

-----------------------------------------------------------------------------
(* ToOpenAIStream *)

TextChunk(i, whole) == Carry(Plain("text"), i, whole)
CallStart(i) == Carry(ToolDelta(output[i].index, {"id", "name"}, FALSE), i, FALSE)
\* Only index and arguments are passed on.
CallArguments(i, index, whole) == Carry(ToolDelta(index, {}, TRUE), i, whole)

\* Mutant: the client's name for it.
FinishReasonOfClient(status, toolUse) ==
    IF status = "incomplete" THEN "length" ELSE IF toolUse THEN "tool_use" ELSE "stop"

\* Truncation takes precedence.
FinishReason(status, toolUse) ==
    IF status = "incomplete" THEN "length" ELSE IF toolUse THEN "tool_calls" ELSE "stop"

\* A terminal event may come without usage.
Usage(counted) == IF counted THEN << Carry(Plain("usage"), 0, FALSE) >> ELSE <<>>

\* Mutant: as in a Chat Completions stream.
UsageLast(status, counted) ==
    << [Carry(Plain("finish"), 0, FALSE) EXCEPT !.reason = FinishReason(status, hasToolUse)] >>
    \o Usage(counted)
    \o << Carry(Plain("done"), 0, FALSE) >>

Finish(status, counted) ==
    Usage(counted)
    \o << [Carry(Plain("finish"), 0, FALSE) EXCEPT !.reason = FinishReason(status, hasToolUse)],
          Carry(Plain("done"), 0, FALSE) >>

Failure == Carry(Plain("error"), 0, FALSE)

-----------------------------------------------------------------------------
(* Upstream's events and processCodexEvent. *)

Quiet == pending = <<>> /\ place = "receive" /\ backend.open /\ "failed" \notin guard

MannersOf(i) ==
    (IF i < backend.current THEN {"interleaved"} ELSE {})
    \cup (IF backend.terminals > 0 THEN {"after"} ELSE {})

unseen == <<vars, output, guard, forwarded, reason>>

OutputItemAdded(i) ==
    /\ Quiet /\ IsCall(i) /\ i \notin backend.announced
    /\ backend' = [backend EXCEPT !.announced = @ \cup {i}, !.current = i]
    /\ manners' = manners \cup MannersOf(i)
    /\ itemIndex' = [itemIndex EXCEPT ![Id(i, "added")] = output[i].index]
    /\ hasToolUse' = TRUE
    /\ pending' = <<CallStart(i)>>
    /\ UNCHANGED <<unseen, streamed>>

\* Mutant: text deltas are not noted.
DeltaUnnoted(i) ==
    /\ Quiet /\ backend.deltas[i] < output[i].maxDeltas
    /\ backend' = [backend EXCEPT !.deltas[i] = @ + 1, !.current = i]
    /\ streamed' = IF Carries(i, "delta") /\ IsCall(i) THEN streamed \cup {i} ELSE streamed
    /\ UNCHANGED <<unseen, itemIndex, hasToolUse>>

Delta(i) ==
    /\ Quiet /\ backend.deltas[i] < output[i].maxDeltas
    /\ backend' = [backend EXCEPT !.deltas[i] = @ + 1, !.current = i]
    /\ streamed' = IF Carries(i, "delta") THEN streamed \cup {i} ELSE streamed
    /\ UNCHANGED <<unseen, itemIndex, hasToolUse>>

OutputTextDelta(i) ==
    /\ ~IsCall(i)
    /\ Delta(i)
    /\ manners' = manners \cup MannersOf(i)
    /\ pending' = <<TextChunk(i, FALSE)>>

\* Without an id it is dropped.
ArgumentsDelta(i) ==
    /\ output[i].kind = "call"
    /\ Delta(i)
    /\ manners' = manners \cup MannersOf(i)
                  \cup (IF i \in backend.announced THEN {} ELSE {"unannounced"})
    /\ pending' = IF Carries(i, "delta") THEN <<CallArguments(i, output[i].index, FALSE)>> ELSE <<>>

\* Only ParseResponse uses it.
OutputItemDone(i) ==
    /\ Quiet /\ i \notin backend.done /\ backend.terminals = 0
    /\ backend' = [backend EXCEPT !.done = @ \cup {i}]
    /\ UNCHANGED <<unseen, manners, streamed, itemIndex, hasToolUse, pending>>

\* Mutant: the noted index is not used.
SupplyByPosition(i) ==
    IF ~IsCall(i) THEN TextChunk(i, TRUE) ELSE CallArguments(i, i - 1, TRUE)

\* What a terminal event supplies of an item whose id was not streamed: its index
\* is the one announced with that id or its position.
Missing(i) == Id(i, "listed") \notin streamed /\ output[i].kind # "bare"
Supply(i) ==
    LET announced == itemIndex[Id(i, "listed")] IN
    IF ~IsCall(i) THEN TextChunk(i, TRUE)
    ELSE CallArguments(i, IF announced # Nobody THEN announced ELSE i - 1, TRUE)

\* What has been supplied after the first n items.
Supplied[n \in {0} \cup Positions] ==
    IF n = 0 THEN <<>>
    ELSE IF Missing(n) THEN Append(Supplied[n - 1], Supply(n))
    ELSE Supplied[n - 1]

Supplies(full) == IF full THEN Supplied[Len(output)] ELSE <<>>

\* An item has been told: in parts, or as a call without arguments.
Told(i) == backend.deltas[i] > 0 \/ (output[i].kind = "bare" /\ i \in backend.announced)

MannersOfTerminal(full, counted) ==
    (IF backend.terminals > 0 THEN {"after"} ELSE {})
    \cup (IF \E i \in Positions : IsCall(i) /\ i \notin backend.announced
          THEN {"unannounced"} ELSE {})
    \cup (IF full /\ \E i \in Positions : Missing(i) /\ IsCall(i)
                        /\ (backend.current # i \/ \E j \in 1 .. i - 1 : Missing(j))
          THEN {"late"} ELSE {})
    \cup (IF \/ backend.done \notin {{}, Positions}
             \/ ~full /\ (backend.done = {} \/ \E i \in Positions : ~Told(i))
          THEN {"omits"} ELSE {})
    \cup (IF counted /\ ~usage /\ backend.terminals > 0 THEN {"belated"} ELSE {})

\* response.done, response.completed and response.incomplete, with a response.
Terminal(status, full, counted) ==
    /\ Quiet /\ backend.terminals < MaxTerminals
    /\ backend' = [backend EXCEPT !.terminals = @ + 1, !.status = status, !.full = full]
    /\ manners' = manners \cup MannersOfTerminal(full, counted)
    /\ guard' = guard \cup {"terminal"}
    /\ pending' = Supplies(full) \o Finish(status, counted)
    /\ UNCHANGED <<vars, output, streamed, itemIndex, hasToolUse, forwarded, reason>>

\* response.failed, a terminal event that cannot be decoded, and what ends the
\* parser early.
Fails ==
    /\ Quiet
    /\ guard' = guard \cup {"failed"}
    /\ pending' = <<Failure>>
    /\ UNCHANGED <<vars, output, backend, manners, streamed, itemIndex, hasToolUse, forwarded,
                   reason>>

\* Without a terminal event that is a failure.
BodyEnds ==
    /\ Quiet
    /\ backend' = [backend EXCEPT !.open = FALSE]
    /\ pending' = IF guard = {} THEN <<Failure>> ELSE <<>>
    /\ UNCHANGED <<unseen, manners, streamed, itemIndex, hasToolUse>>

-----------------------------------------------------------------------------
(* The converter at the other end. *)

Forward(cargo) ==
    IF cargo.item = 0 \/ cargo.chunk.gives # {} THEN forwarded
    ELSE IF cargo.whole THEN [forwarded EXCEPT ![cargo.item].wholes = @ + 1]
    ELSE [forwarded EXCEPT ![cargo.item].parts = @ + 1]

ConverterReceives ==
    /\ pending # <<>>
    /\ Receive(Head(pending).chunk)
    /\ pending' = Tail(pending)
    /\ forwarded' = Forward(Head(pending))
    /\ reason' = IF Head(pending).chunk.kind = "finish" /\ ~finished
                   THEN Head(pending).reason ELSE reason
    /\ UNCHANGED <<output, backend, manners, streamed, itemIndex, hasToolUse, guard>>

ChannelEnds == pending = <<>> /\ ~backend.open /\ ChannelCloses /\ UNCHANGED codexVars

ConverterWrites ==
    /\ \/ WriteMessageStart \/ WritePing \/ Skip \/ CloseTextBlock
       \/ \E call \in Calls : CloseToolBlock(call)
       \/ OpenTextBlock \/ WriteTextDelta
       \/ NoteCall \/ StartToolBlock \/ WriteToolInput
       \/ WriteMessageDelta \/ WriteMessageStop
       \/ WriteFails \/ Returned
    /\ UNCHANGED codexVars

-----------------------------------------------------------------------------

CodexInit ==
    /\ ConverterInit
    /\ output \in Outputs
    /\ backend = [announced |-> {}, deltas |-> [i \in Positions |-> 0], done |-> {}, current |-> 0,
                  terminals |-> 0, status |-> "in_progress", full |-> FALSE, open |-> TRUE]
    /\ manners = {}
    /\ streamed = {}
    /\ itemIndex = [id \in {0} \cup Positions |-> Nobody]
    /\ hasToolUse = FALSE /\ guard = {}
    /\ pending = <<>>
    /\ forwarded = [i \in Positions |-> [parts |-> 0, wholes |-> 0]]
    /\ reason = "none"

CodexNext ==
    \/ \E i \in Positions :
          OutputItemAdded(i) \/ OutputTextDelta(i) \/ ArgumentsDelta(i) \/ OutputItemDone(i)
    \/ \E status \in Statuses, full, counted \in BOOLEAN : Terminal(status, full, counted)
    \/ Fails \/ BodyEnds
    \/ ConverterReceives \/ ChannelEnds \/ ConverterWrites

CodexSpec == CodexInit /\ [][CodexNext]_<<vars, codexVars>>

-----------------------------------------------------------------------------
(* ParseResponse: the answer to a client that does not stream. *)

\* Rebuilt from the item events if there are any.
WholeItems == IF backend.done # {} THEN backend.done ELSE IF backend.full THEN Positions ELSE {}

WholeReason ==
    IF backend.status = "incomplete" THEN "length"
    ELSE IF \E i \in WholeItems : IsCall(i) THEN "tool_calls" ELSE "stop"

-----------------------------------------------------------------------------
(* Properties *)

\* An upstream that goes through its items in order, announces each call, lists
\* it by the id it announced, and stops after one terminal event gets every event
\* into its block, also when texts, or the arguments of the call it has just
\* announced, come only with that event (stream.go:196-215).
OrderlyInPlace ==
    /\ manners \cap {"interleaved", "unannounced", "late", "after"} = {}
    /\ \A i \in Positions : IsCall(i) => Carries(i, "added") /\ Carries(i, "listed")
    => client.faults = {}

\* Streaming or not, the client gets the same answer, in whatever order upstream
\* sent it: all of each item, but for arguments in deltas without an id; each item
\* once, in parts or whole, if its deltas and the list have its id; the same calls
\* and the same stop reason ("matching the safety net", dispatch.go:61-64; "so the
\* response.done fallback does not duplicate it", stream.go:184-185).
StreamedAsWhole ==
    LET calls == {i \in WholeItems : IsCall(i)} IN
    place = "returned" /\ manners \subseteq {"interleaved", "late"} /\ backend.status # "failed" =>
        /\ \A i \in WholeItems :
              output[i].kind # "bare" =>
                  /\ ~IsCall(i) \/ Carries(i, "delta") =>
                        forwarded[i].parts = backend.deltas[i] /\ forwarded[i].parts + forwarded[i].wholes > 0
                  /\ Carries(i, "delta") /\ Carries(i, "listed") =>
                        forwarded[i].wholes = (IF backend.deltas[i] = 0 THEN 1 ELSE 0)
        /\ {call \in Calls : toolCalls[call].started} = {output[i].index : i \in calls}
        /\ reason = WholeReason

\* "Usage-only chunk (no choices) ... capture token counts" (convert/stream.go:93):
\* the counts of the first terminal event reach the client with message_delta,
\* whatever terminal events follow it.  The counts of a later one come too late if
\* the first had none.
UsageReported == place = "returned" /\ usage /\ "belated" \notin manners => reported

-----------------------------------------------------------------------------
(* What the repository says of the program and the code does not do. *)

\* "Emit them for any function call whose arguments were not already streamed"
\* (stream.go:196-198), and the test of two announced calls whose arguments come
\* with response.done (stream_test.go:155-199): the client gets arguments of an
\* announced call inside the block of that call.
LateArgumentsInPlace ==
    /\ manners \cap {"interleaved", "unannounced", "after"} = {}
    /\ \A i \in Positions : output[i].ids = Ids
    => "block" \notin client.faults
===============================================================================
