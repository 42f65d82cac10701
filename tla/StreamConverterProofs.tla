------------------------ MODULE StreamConverterProofs ------------------------
(***************************************************************************)
(* Theorems about StreamConverter.tla, for any calls and any number of     *)
(* blocks.  Type correctness, OneLifecycle and EndsWhole hold whatever the *)
(* upstream sends; BlocksAgree and WellFormed, that the converter          *)
(* implements the message of SSEMessage.tla, for an upstream without any   *)
(* of the habits.                                                          *)
(***************************************************************************)
EXTENDS StreamConverter, TLAPS

-----------------------------------------------------------------------------
(* What holds whatever upstream sends. *)

\* A chunk is where chunks of its kind are handled.
ChunkInPlace ==
    /\ chunk.kind = "tool" => chunk.call \in Calls
    /\ place \in {"call", "args"} => chunk.kind = "tool"
    /\ place = "chunk" \/ (place \in {"start", "ping"} /\ chunk # NoChunk) =>
          chunk.kind \in {"role", "usage", "text", "tool", "finish"}
    /\ place = "receive" => chunk = NoChunk

\* Where the client is in the message, as the converter's state tells it.
PhaseNow ==
    IF place = "start" \/ (place = "receive" /\ ~started) THEN "none"
    ELSE IF place = "returned" THEN "stopped"
    ELSE IF place # "ping" /\ finished THEN "ended"
    ELSE "started"

PhaseKnown ==
    /\ place # "failed" => client.phase = PhaseNow
    /\ place \in {"start", "ping"} => ~started
    /\ place \in {"chunk", "call", "args"} => started
    /\ place \notin {"finish", "returned", "failed"} => (finished => started)

\* The client has no block open that the converter takes for closed.
OpenKnown ==
    place # "failed" =>
        \/ client.open = Nobody
        \/ client.open = Text /\ textOpen
        \/ client.open \in OpenCalls

\* Only a block that has begun is closed, and each begins once.
ClosedBegan ==
    /\ \A call \in Calls : toolCalls[call].closed => toolCalls[call].started
    /\ place = "call" => ~toolCalls[chunk.call].started

ReturnedClosed == place = "returned" => client.open = Nobody

ConverterInv ==
    /\ ConverterTypeOK
    /\ ChunkInPlace
    /\ PhaseKnown
    /\ OneLifecycle
    /\ OpenKnown
    /\ ClosedBegan
    /\ ReturnedClosed

-----------------------------------------------------------------------------
(* What holds for an upstream without habits. *)

InHand == place \in {"start", "ping", "chunk", "call", "args"}

\* The chunk in hand is the first of its call, whose block has not begun.
Fresh ==
    /\ InHand /\ chunk.kind = "tool"
    /\ place = "call" \/ (place # "args" /\ ~toolCalls[chunk.call].seen)

\* Every call that was seen has been announced in full, and its block begun.
CallsNoted ==
    \A call \in Calls :
        LET state == toolCalls[call] IN
        /\ state.seen => /\ call \in upstream.announced
                         /\ state.has = {"id", "name"}
                         /\ state.started \/ (place = "call" /\ chunk.call = call)
        /\ ~state.seen => ~state.started /\ ~state.closed
        /\ call \in OpenCalls => state.blockIndex + 1 = blockIdx

\* What upstream is sending is in hand or open.
SendingKnown ==
    /\ InHand /\ chunk.kind = "text" => upstream.current = Text
    /\ InHand /\ chunk.kind = "tool" =>
          upstream.current = chunk.call /\ chunk.call \in upstream.announced
    /\ Fresh => /\ place # "call" => chunk.gives = {"id", "name"}
                /\ \A other \in upstream.announced : other <= chunk.call
    /\ /\ InHand \/ place = "receive"
       /\ ~upstream.finished /\ upstream.current \in Calls /\ ~Fresh
       => upstream.current \in OpenCalls

\* A call about to begin gets the next block.
CallReady ==
    place = "call" =>
        LET state == toolCalls[chunk.call] IN
        /\ state.seen /\ ~state.started /\ ~state.closed
        /\ state.blockIndex = blockIdx
        /\ ~textOpen

\* A chunk that an upstream without habits may send.
Conforms(c) ==
    /\ c.kind \in {"text", "tool", "finish"} => ~upstream.finished
    /\ c.kind = "tool" =>
          \/ /\ c.call \notin upstream.announced /\ c.gives = {"id", "name"}
             /\ \A other \in upstream.announced : other < c.call
          \/ c.call \in upstream.announced /\ upstream.current = c.call

\* This step receives no other.
ReceivesConforming == \A c \in Chunks : Receive(c) => Conforms(c)

FinishKnown ==
    /\ InHand \/ place = "receive" => (finished => upstream.finished)
    /\ place # "failed" /\ finished => client.open = Nobody
    /\ place = "receive" => (upstream.finished => finished)
    /\ InHand => (upstream.finished => finished \/ chunk.kind = "finish")
    /\ InHand /\ chunk.kind \in {"text", "tool"} => ~upstream.finished
    /\ InHand /\ chunk.kind = "finish" => upstream.finished

ConformingInv ==
    /\ client.faults = {}
    /\ BlocksAgree
    /\ textOpen => blockIdx > 0
    /\ place # "failed" => CallsNoted /\ SendingKnown /\ CallReady /\ FinishKnown

-----------------------------------------------------------------------------
(* Events delivered. *)

\* A message event in its place: the client moves on and sees no fault of the
\* lifecycle, nor any other if no block is open where none may be.
LEMMA MessageDelivered ==
    ASSUME client \in Clients, NEW type \in MessageTypes,
           Deliver(Message(type)), InPhase(Message(type))
    PROVE  /\ client' \in Clients
           /\ client'.phase = PhaseAfter(Message(type))
           /\ client'.open = client.open /\ client'.count = client.count
           /\ "lifecycle" \in client'.faults => "lifecycle" \in client.faults
           /\ (type = "message_delta" => client.open = Nobody) =>
                 InSequence(Message(type)) /\ client' = Reads(Message(type))
  BY DEF Deliver, Message, InPhase, InSequence, Reads, PhaseAfter, OpenAfter, Fault, Clients, Phases, Faults,
         MessageTypes, BlockTypes

\* A block event never counts against the lifecycle; the client takes the
\* block it names for begun or ended.
LEMMA BlockDelivered ==
    ASSUME client \in Clients, NEW type \in BlockTypes, NEW index, NEW owner \in Owners,
           Deliver(Block(type, index, owner))
    PROVE  /\ client' \in Clients
           /\ client'.phase = client.phase
           /\ client'.open = OpenAfter(Block(type, index, owner))
           /\ client'.count = IF type = "start" THEN client.count + 1 ELSE client.count
           /\ "lifecycle" \in client'.faults => "lifecycle" \in client.faults
           /\ InPhase(Block(type, index, owner)) /\ InSequence(Block(type, index, owner)) =>
                 client' = Reads(Block(type, index, owner))
  BY DEF Deliver, Block, InPhase, InSequence, Reads, PhaseAfter, OpenAfter, Fault, Clients, Phases, Faults,
         MessageTypes, BlockTypes, Owners

\* A block event that continues the sequence is a step of the message.
LEMMA BlockExpected ==
    ASSUME client \in Clients, client.phase = "started",
           NEW type \in BlockTypes, NEW index \in 0..client.count, NEW owner \in Owners,
           Deliver(Block(type, index, owner)),
           type = "start" => client.open = Nobody /\ index = client.count,
           type # "start" => client.open = owner /\ index + 1 = client.count /\ client.count > 0
    PROVE  MessageNext /\ client'.faults = client.faults
  <1> DEFINE event == Block(type, index, owner)
  <1>1. InPhase(event) /\ InSequence(event)
    BY DEF InPhase, InSequence, Block, BlockTypes
  <1>2. event \in Events
    BY DEF Events, Clients
  <1>3. client' = Reads(event)
    BY <1>1, BlockDelivered
  <1> QED
    BY <1>1, <1>2, <1>3 DEF MessageNext, Reads

\* So is a message event in its place while no block is open.
LEMMA MessageExpected ==
    ASSUME client \in Clients, NEW type \in MessageTypes,
           Deliver(Message(type)), InPhase(Message(type)),
           type = "message_delta" => client.open = Nobody
    PROVE  MessageNext /\ client'.faults = client.faults
  <1>1. InSequence(Message(type)) /\ client' = Reads(Message(type))
    BY MessageDelivered
  <1>2. Message(type) \in Events
    BY DEF Events
  <1> QED
    BY <1>1, <1>2 DEF MessageNext, Reads

-----------------------------------------------------------------------------
(* Whatever upstream sends. *)

\* No chunk in hand.
LEMMA NoChunkType == NoChunk \in Chunks /\ NoChunk.kind = "done"
  BY DEF NoChunk, Plain, Chunks, Kinds

\* The invariant holds initially.
LEMMA ConverterInvInit == ConverterInit => ConverterInv
  <1> SUFFICES ASSUME ConverterInit PROVE ConverterInv
    OBVIOUS
  <1> USE DEF ConverterInit
  <1>1. ConverterTypeOK
    <2>1. client \in Clients
      BY DEF MessageInit, NewClient, Clients, Phases, Faults
    <2>2. chunk \in Chunks
      BY DEF NoChunk, Plain, Chunks, Kinds
    <2>3. toolCalls \in [Calls -> CallStates]
      BY DEF NewCall, CallStates
    <2>4. upstream \in Senders
      BY DEF Senders
    <2> QED
      BY <2>1, <2>2, <2>3, <2>4 DEF ConverterTypeOK, Places
  <1>2. OneLifecycle /\ OpenKnown
    BY DEF MessageInit, NewClient, OneLifecycle, OpenKnown
  <1> QED
    BY <1>1, <1>2
       DEF ConverterInv, ChunkInPlace, PhaseKnown, PhaseNow, MessageInit, NewClient, NoChunk,
           Plain, ReturnedClosed, ClosedBegan, NewCall

\* What upstream sends keeps the type of its history.
LEMMA SendsType ==
    ASSUME ConverterTypeOK, NEW c \in Chunks, Sends(c)
    PROVE  /\ upstream' \in Senders
           /\ c.kind = "tool" => c.call \in Calls
           /\ c.kind = "done" => c = NoChunk
  <1> USE DEF ConverterTypeOK, Senders, Owners
  <1>1. CASE c \in {Plain("role"), Plain("usage"), Plain("done"), Plain("error")} /\ UNCHANGED upstream
    BY <1>1 DEF Plain, NoChunk
  <1>2. CASE c = Plain("text") /\ upstream' = [upstream EXCEPT !.current = Text]
    BY <1>2 DEF Plain
  <1>3. CASE c = Plain("finish") /\ upstream' = [upstream EXCEPT !.finished = TRUE]
    BY <1>3 DEF Plain
  <1>4. CASE /\ \E call \in Calls, gives \in SUBSET {"id", "name"}, args \in BOOLEAN :
                   c = ToolDelta(call, gives, args)
             /\ upstream' = [upstream EXCEPT !.announced = @ \cup {c.call}, !.current = c.call]
    <2>1. c.kind = "tool" /\ c.call \in Calls
      BY <1>4 DEF ToolDelta
    <2>2. upstream' \in Senders
      BY <1>4, <2>1
    <2> QED
      BY <2>1, <2>2
  <1> QED
    BY <1>1, <1>2, <1>3, <1>4 DEF Sends

\* Every step keeps it.
LEMMA ConverterInvStep == ConverterInv /\ [ConverterNext]_vars => ConverterInv'
  <1> SUFFICES ASSUME ConverterInv, [ConverterNext]_vars PROVE ConverterInv'
    OBVIOUS
  <1> USE TextAssumption, NobodyAssumption
  <1>1. CASE UNCHANGED vars
    BY <1>1 DEF vars, ConverterInv, ConverterTypeOK, ChunkInPlace, PhaseKnown, PhaseNow,
                OneLifecycle, OpenKnown, OpenCalls, ClosedBegan, ReturnedClosed
  <1>2. ASSUME NEW c \in Chunks, Receive(c) PROVE ConverterInv'
    <2>1. /\ upstream' \in Senders
          /\ c.kind = "tool" => c.call \in Calls
          /\ c.kind = "done" => c = NoChunk
      BY <1>2, SendsType DEF Receive, ConverterInv
    <2> QED
      BY <1>2, <2>1
         DEF Receive, converterVars, ConverterInv, ConverterTypeOK, ChunkInPlace,
             PhaseKnown, PhaseNow, OneLifecycle, OpenKnown, OpenCalls, ClosedBegan,
             ReturnedClosed, Places, Chunks, Kinds
  <1>3. CASE ChannelCloses
    BY <1>3 DEF ChannelCloses, converterVars, historyVars, ConverterInv, ConverterTypeOK,
                ChunkInPlace, PhaseKnown, PhaseNow, OneLifecycle, OpenKnown, OpenCalls,
                ClosedBegan, ReturnedClosed, Places, NoChunk, Plain
  <1>4. CASE WriteMessageStart
    BY <1>4, MessageDelivered
       DEF WriteMessageStart, converterVars, historyVars, ConverterInv, ConverterTypeOK,
           ChunkInPlace, PhaseKnown, PhaseNow, OneLifecycle, OpenKnown, OpenCalls,
           ClosedBegan, ReturnedClosed, Places, InPhase, Message, MessageTypes, PhaseAfter
  <1>5. CASE WritePing
    BY <1>5, MessageDelivered
       DEF WritePing, ConverterInv, ConverterTypeOK, ChunkInPlace, PhaseKnown, PhaseNow,
           OneLifecycle, OpenKnown, OpenCalls, ClosedBegan, ReturnedClosed, Places,
           converterVars, historyVars, InPhase, Message, MessageTypes, PhaseAfter, NoChunk,
           Plain
  <1>6. CASE Skip
    BY <1>6, NoChunkType
       DEF Skip, ConverterInv, ConverterTypeOK, ChunkInPlace, PhaseKnown, PhaseNow,
           OneLifecycle, OpenKnown, OpenCalls, ClosedBegan, ReturnedClosed, Places,
           converterVars, historyVars, NextChunk
  <1>7. CASE CloseTextBlock
    BY <1>7, BlockDelivered
       DEF CloseTextBlock, ConverterInv, ConverterTypeOK, ChunkInPlace, PhaseKnown,
           PhaseNow, OneLifecycle, OpenKnown, OpenCalls, ClosedBegan, ReturnedClosed,
           Places, converterVars, historyVars, BlockTypes, Owners, OpenAfter, Block,
           Clients
  <1>8. ASSUME NEW call \in Calls, CloseToolBlock(call) PROVE ConverterInv'
    <2>1. /\ toolCalls' \in [Calls -> CallStates] /\ OpenCalls' = OpenCalls \ {call}
          /\ \A other \in Calls :
                /\ toolCalls'[other].started = toolCalls[other].started
                /\ toolCalls'[other].closed => toolCalls[other].closed \/ other = call
          /\ toolCalls[call].started
      BY <1>8 DEF CloseToolBlock, ConverterInv, ConverterTypeOK, CallStates, OpenCalls
    <2>2. /\ client' \in Clients /\ client'.phase = client.phase /\ client'.open = Nobody
          /\ "lifecycle" \notin client'.faults
      BY <1>8, BlockDelivered
         DEF CloseToolBlock, ConverterInv, ConverterTypeOK, OneLifecycle, BlockTypes, Owners,
             OpenAfter, Block
    <2>3. UNCHANGED <<place, chunk, started, finished, textOpen, blockIdx, usage, historyVars>>
      BY <1>8 DEF CloseToolBlock
    <2> QED
      BY <2>1, <2>2, <2>3
         DEF ConverterInv, ConverterTypeOK, ChunkInPlace, PhaseKnown, PhaseNow, OneLifecycle,
             OpenKnown, ClosedBegan, ReturnedClosed, historyVars
  <1>9. CASE OpenTextBlock
    BY <1>9, BlockDelivered
       DEF OpenTextBlock, ConverterInv, ConverterTypeOK, ChunkInPlace, PhaseKnown,
           PhaseNow, OneLifecycle, OpenKnown, OpenCalls, ClosedBegan, ReturnedClosed,
           Places, converterVars, historyVars, BlockTypes, Owners, OpenAfter, Block,
           Clients
  <1>10. CASE WriteTextDelta
    BY <1>10, BlockDelivered, NoChunkType
       DEF WriteTextDelta, ConverterInv, ConverterTypeOK, ChunkInPlace, PhaseKnown,
           PhaseNow, OneLifecycle, OpenKnown, OpenCalls, ClosedBegan, ReturnedClosed,
           Places, converterVars, historyVars, BlockTypes, Owners, OpenAfter, Block,
           Clients, NextChunk
  <1>11. CASE NoteCall
    <2>1. chunk.call \in Calls
      BY <1>11 DEF NoteCall, ConverterInv, ChunkInPlace
    <2>2. toolCalls' \in [Calls -> CallStates]
      <3> DEFINE state == toolCalls[chunk.call]
                 noted == [state EXCEPT !.seen = TRUE, !.has = @ \cup chunk.gives,
                                        !.blockIndex = IF state.seen THEN @ ELSE blockIdx]
      <3>1. state \in CallStates /\ blockIdx \in Nat /\ chunk.gives \subseteq {"id", "name"}
        BY <2>1 DEF ConverterInv, ConverterTypeOK, Chunks
      <3>2. noted \in CallStates
        BY <3>1 DEF CallStates
      <3>3. toolCalls' = [toolCalls EXCEPT ![chunk.call] = noted]
        BY <1>11 DEF NoteCall
      <3> QED
        BY <3>2, <3>3, <2>1 DEF ConverterInv, ConverterTypeOK
    <2>3. \A call \in Calls : /\ toolCalls'[call].started = toolCalls[call].started
                             /\ toolCalls'[call].closed = toolCalls[call].closed
      BY <1>11, <2>1 DEF NoteCall, ConverterInv, ConverterTypeOK, CallStates
    <2>4. OpenCalls' = OpenCalls
      BY <2>3 DEF OpenCalls
    <2>5. /\ place = "chunk" /\ chunk.kind = "tool"
          /\ UNCHANGED <<client, started, finished, textOpen, blockIdx, usage, historyVars>>
          /\ \/ place' = "call" /\ UNCHANGED chunk /\ ~toolCalls'[chunk.call].started
             \/ ToArguments
      <3> USE <1>11, <2>1, <2>2 DEF NoteCall, ConverterInv, ConverterTypeOK, CallStates
      <3>1. place' = "call" => ~toolCalls'[chunk.call].started
        BY DEF ToArguments, NextChunk
      <3> QED
        BY <3>1
    <2> QED
      BY <2>1, <2>2, <2>3, <2>4, <2>5, NoChunkType
         DEF ConverterInv, ConverterTypeOK, ChunkInPlace, PhaseKnown, PhaseNow,
             OneLifecycle, OpenKnown, ClosedBegan, ReturnedClosed, Places, historyVars,
             ToArguments, NextChunk
  <1>12. CASE StartToolBlock
    <2>1. chunk.call \in Calls
      BY <1>12 DEF StartToolBlock, ConverterInv, ChunkInPlace
    <2>2. toolCalls' \in [Calls -> CallStates]
      BY <1>12, <2>1 DEF StartToolBlock, ConverterInv, ConverterTypeOK, CallStates
    <2>3. OpenCalls \subseteq OpenCalls' /\ chunk.call \in OpenCalls' /\ ClosedBegan'
      BY <1>12, <2>1 DEF StartToolBlock, ConverterInv, ConverterTypeOK, CallStates, OpenCalls,
                         ClosedBegan, ToArguments, NextChunk
    <2>4. /\ client' \in Clients /\ client'.phase = client.phase /\ client'.open = chunk.call
          /\ "lifecycle" \notin client'.faults
      BY <1>12, <2>1, BlockDelivered
         DEF StartToolBlock, ConverterInv, ConverterTypeOK, OneLifecycle, BlockTypes, Owners,
             OpenAfter, Block
    <2>5. /\ place = "call" /\ ToArguments /\ blockIdx' = blockIdx + 1
          /\ UNCHANGED <<started, finished, textOpen, usage, historyVars>>
      BY <1>12 DEF StartToolBlock
    <2> QED
      BY <2>2, <2>3, <2>4, <2>5, NoChunkType
         DEF ConverterInv, ConverterTypeOK, ChunkInPlace, PhaseKnown, PhaseNow,
             OneLifecycle, OpenKnown, ClosedBegan, ReturnedClosed, Places, historyVars,
             ToArguments, NextChunk
  <1>13. CASE WriteToolInput
    BY <1>13, BlockDelivered, NoChunkType
       DEF WriteToolInput, ConverterInv, ConverterTypeOK, ChunkInPlace, PhaseKnown,
           PhaseNow, OneLifecycle, OpenKnown, OpenCalls, ClosedBegan, ReturnedClosed,
           Places, converterVars, historyVars, BlockTypes, Owners, OpenAfter, Block,
           Clients, NextChunk
  <1>14. CASE WriteMessageDelta
    BY <1>14, MessageDelivered, NoChunkType
       DEF WriteMessageDelta, ConverterInv, ConverterTypeOK, ChunkInPlace, PhaseKnown,
           PhaseNow, OneLifecycle, OpenKnown, OpenCalls, ClosedBegan, ReturnedClosed,
           Places, converterVars, historyVars, InPhase, Message, MessageTypes, BlockTypes,
           PhaseAfter, NextChunk
  <1>15. CASE WriteMessageStop
    BY <1>15, MessageDelivered
       DEF WriteMessageStop, ConverterInv, ConverterTypeOK, ChunkInPlace, PhaseKnown,
           PhaseNow, OneLifecycle, OpenKnown, OpenCalls, ClosedBegan, ReturnedClosed,
           Places, converterVars, historyVars, InPhase, Message, MessageTypes, BlockTypes,
           PhaseAfter, AllClosed
  <1>16. CASE WriteFails
    BY <1>16
       DEF WriteFails, ConverterInv, ConverterTypeOK, ChunkInPlace, PhaseKnown, PhaseNow,
           OneLifecycle, OpenKnown, OpenCalls, ClosedBegan, ReturnedClosed, Places,
           converterVars, historyVars, ClosesText
  <1> QED
    BY <1>1, <1>2, <1>3, <1>4, <1>5, <1>6, <1>7, <1>8, <1>9, <1>10, <1>11, <1>12, <1>13,
       <1>14, <1>15, <1>16
       DEF ConverterNext, Returned

\* Types of the converter's state (stream.go:21-49).
THEOREM ConverterTypes == ConverterSpec => []ConverterTypeOK
  <1>1. ConverterInv => ConverterTypeOK
    BY DEF ConverterInv
  <1> QED
    BY <1>1, ConverterInvInit, ConverterInvStep, PTL DEF ConverterSpec

\* The message begins once, is closed once and stops once, in that order,
\* whatever upstream sends (stream.go:67-162).
THEOREM MessageHasOneLifecycle == ConverterSpec => []OneLifecycle
  <1>1. ConverterInv => OneLifecycle
    BY DEF ConverterInv
  <1> QED
    BY <1>1, ConverterInvInit, ConverterInvStep, PTL DEF ConverterSpec

\* A stream that ends without an error is a whole message, whatever upstream
\* sends (stream.go:136-162).
THEOREM StreamEndsWhole == ConverterSpec => []EndsWhole
  <1>1. ConverterInv => EndsWhole
    BY DEF ConverterInv, EndsWhole, PhaseKnown, PhaseNow, ReturnedClosed
  <1> QED
    BY <1>1, ConverterInvInit, ConverterInvStep, PTL DEF ConverterSpec

-----------------------------------------------------------------------------
(* An upstream without habits. *)

\* The invariant holds initially.
LEMMA ConformingInvInit == ConverterInit => ConformingInv
  BY TextAssumption, NobodyAssumption
     DEF ConverterInit, MessageInit, NewClient, ConformingInv, BlocksAgree, OpenCalls,
         NewCall, CallsNoted, SendingKnown, CallReady, FinishKnown, InHand, Fresh, NoChunk,
         Plain, Owners

\* An upstream without habits sends no other chunks.
LEMMA SendsConform ==
    ASSUME Habits = {}, NEW c \in Chunks, Receive(c)
    PROVE  Conforms(c)
  BY DEF Receive, Sends, Plain, MayTalk, MayBegin, MayContinue, Conforms

\* Every step keeps it and is a step of the message, whatever the habits, as long
\* as the chunks that come are such.
LEMMA ConformingStep ==
    ASSUME ConverterInv, ConformingInv, [ConverterNext]_vars,
           ReceivesConforming
    PROVE  ConformingInv' /\ [MessageNext]_client
  <1> USE TextAssumption, NobodyAssumption
  <1> DEFINE Kept == ConformingInv' /\ [MessageNext]_client
  <1>1. CASE UNCHANGED vars
    BY <1>1
       DEF vars, ConverterInv, ConverterTypeOK, ChunkInPlace, PhaseKnown, PhaseNow,
           ConformingInv, BlocksAgree, OpenCalls, CallsNoted, SendingKnown, CallReady,
           FinishKnown, InHand, Fresh, converterVars, historyVars
  <1>2. CASE ChannelCloses
    BY <1>2, NoChunkType
       DEF ChannelCloses, ConverterInv, ConverterTypeOK, ChunkInPlace, PhaseKnown,
           PhaseNow, ConformingInv, BlocksAgree, OpenCalls, CallsNoted, SendingKnown,
           CallReady, FinishKnown, InHand, Fresh, converterVars, historyVars
  <1>3. CASE WriteMessageStart
    BY <1>3, MessageDelivered, MessageExpected
       DEF WriteMessageStart, InPhase, Message, MessageTypes, BlockTypes, PhaseAfter,
           ConverterInv, ConverterTypeOK, ChunkInPlace, PhaseKnown, PhaseNow,
           ConformingInv, BlocksAgree, OpenCalls, CallsNoted, SendingKnown, CallReady,
           FinishKnown, InHand, Fresh, converterVars, historyVars
  <1>4. CASE WritePing
    BY <1>4, MessageDelivered, MessageExpected, NoChunkType
       DEF WritePing, InPhase, Message, MessageTypes, BlockTypes, PhaseAfter, ConverterInv,
           ConverterTypeOK, ChunkInPlace, PhaseKnown, PhaseNow, ConformingInv, BlocksAgree,
           OpenCalls, CallsNoted, SendingKnown, CallReady, FinishKnown, InHand, Fresh,
           converterVars, historyVars
  <1>5. CASE Skip
    BY <1>5, NoChunkType
       DEF Skip, NextChunk, ConverterInv, ConverterTypeOK, ChunkInPlace, PhaseKnown,
           PhaseNow, ConformingInv, BlocksAgree, OpenCalls, CallsNoted, SendingKnown,
           CallReady, FinishKnown, InHand, Fresh, converterVars, historyVars
  <1>6. CASE CloseTextBlock
    <2>1. /\ textOpen /\ client.open = Text /\ ~finished /\ place \in {"chunk", "finish"}
          /\ blockIdx = client.count /\ client.count > 0
      BY <1>6 DEF CloseTextBlock, ClosesAll, ClosesText, Owners, ConverterInv,
                  ConverterTypeOK, ChunkInPlace, PhaseKnown, PhaseNow, ConformingInv,
                  BlocksAgree, OpenCalls, CallsNoted, SendingKnown, CallReady, FinishKnown,
                  InHand, Fresh, converterVars, historyVars
    <2>2. client.phase = "started"
      BY <2>1 DEF ConverterInv, PhaseKnown, PhaseNow
    <2>3. /\ MessageNext /\ client'.faults = client.faults /\ client'.open = Nobody
          /\ client'.count = client.count
      <3>1. blockIdx - 1 \in 0..client.count /\ (blockIdx - 1) + 1 = client.count
        BY <2>1 DEF ConverterInv, ConverterTypeOK, Clients
      <3> QED
        BY <1>6, <2>1, <2>2, <3>1, BlockDelivered, BlockExpected
           DEF CloseTextBlock, ConverterInv, ConverterTypeOK, BlockTypes, Owners,
               OpenAfter, Block
    <2>4. /\ ~textOpen'
          /\ UNCHANGED <<place, chunk, started, finished, blockIdx, toolCalls, usage, historyVars>>
      BY <1>6 DEF CloseTextBlock
    <2>5. OpenCalls = {} /\ UNCHANGED OpenCalls
      BY <2>1, <2>4 DEF OpenCalls, ConformingInv, BlocksAgree
    <2> QED
      BY <2>1, <2>2, <2>3, <2>4, <2>5
         DEF Owners, ConverterInv, ConverterTypeOK, ChunkInPlace, PhaseKnown, PhaseNow,
             ConformingInv, BlocksAgree, OpenCalls, CallsNoted, SendingKnown, CallReady,
             FinishKnown, InHand, Fresh, converterVars, historyVars
  <1>7. CASE OpenTextBlock
    BY <1>7, BlockDelivered, BlockExpected
       DEF OpenTextBlock, AllClosed, BlockTypes, Owners, OpenAfter, Block, Clients,
           ConverterInv, ConverterTypeOK, ChunkInPlace, PhaseKnown, PhaseNow,
           ConformingInv, BlocksAgree, OpenCalls, CallsNoted, SendingKnown, CallReady,
           FinishKnown, InHand, Fresh, converterVars, historyVars
  <1>8. CASE WriteTextDelta
    BY <1>8, BlockDelivered, BlockExpected, NoChunkType
       DEF WriteTextDelta, NextChunk, BlockTypes, Owners, OpenAfter, Block, Clients,
           ConverterInv, ConverterTypeOK, ChunkInPlace, PhaseKnown, PhaseNow,
           ConformingInv, BlocksAgree, OpenCalls, CallsNoted, SendingKnown, CallReady,
           FinishKnown, InHand, Fresh, converterVars, historyVars
  <1>9. CASE WriteToolInput
    BY <1>9, BlockDelivered, BlockExpected, NoChunkType
       DEF WriteToolInput, NextChunk, CallStates, BlockTypes, Owners, OpenAfter, Block,
           Clients, ConverterInv, ConverterTypeOK, ChunkInPlace, PhaseKnown, PhaseNow,
           ConformingInv, BlocksAgree, OpenCalls, CallsNoted, SendingKnown, CallReady,
           FinishKnown, InHand, Fresh, converterVars, historyVars
  <1>10. CASE WriteMessageDelta
    <2>1. ~textOpen /\ OpenCalls = {} /\ ~finished /\ place \in {"chunk", "finish"}
      BY <1>10 DEF WriteMessageDelta, AllClosed
    <2>2. client.open = Nobody
      BY <2>1 DEF ConverterInv, OpenKnown
    <2>3. client.phase = "started"
      BY <2>1 DEF ConverterInv, PhaseKnown, PhaseNow
    <2>4. MessageNext /\ client'.faults = client.faults /\ client'.open = Nobody
          /\ client'.count = client.count
      BY <1>10, <2>2, <2>3, MessageDelivered, MessageExpected
         DEF WriteMessageDelta, ConverterInv, ConverterTypeOK, InPhase, Message,
             MessageTypes, BlockTypes
    <2>5. CASE place = "chunk"
      BY <1>10, <2>1, <2>2, <2>4, <2>5, NoChunkType
         DEF WriteMessageDelta, NextChunk, ConverterInv, ConverterTypeOK, ChunkInPlace,
             PhaseKnown, PhaseNow, ConformingInv, BlocksAgree, OpenCalls, CallsNoted,
             SendingKnown, CallReady, FinishKnown, InHand, Fresh, converterVars,
             historyVars
    <2>6. CASE place = "finish"
      BY <1>10, <2>1, <2>2, <2>4, <2>6
         DEF WriteMessageDelta, ConverterInv, ConverterTypeOK, ChunkInPlace, PhaseKnown,
             PhaseNow, ConformingInv, BlocksAgree, OpenCalls, CallsNoted, SendingKnown,
             CallReady, FinishKnown, InHand, Fresh, converterVars, historyVars
    <2> QED
      BY <2>1, <2>5, <2>6
  <1>11. CASE WriteMessageStop
    BY <1>11, MessageDelivered, MessageExpected
       DEF WriteMessageStop, AllClosed, InPhase, Message, MessageTypes, BlockTypes,
           PhaseAfter, ConverterInv, ConverterTypeOK, ChunkInPlace, PhaseKnown, PhaseNow,
           ConformingInv, BlocksAgree, OpenCalls, CallsNoted, SendingKnown, CallReady,
           FinishKnown, InHand, Fresh, converterVars, historyVars
  <1>12. CASE WriteFails
    BY <1>12
       DEF WriteFails, ConverterInv, ConverterTypeOK, ChunkInPlace, PhaseKnown, PhaseNow,
           ConformingInv, BlocksAgree, OpenCalls, CallsNoted, SendingKnown, CallReady,
           FinishKnown, InHand, Fresh, converterVars, historyVars
  <1>13. ASSUME NEW c \in Chunks, Receive(c) PROVE Kept
    <2>6. Conforms(c)
      BY <1>13 DEF ReceivesConforming
    <2> USE <1>13, NoChunkType DEF Receive
    <2>1. UNCHANGED client
      OBVIOUS
    <2>2. CASE c \in {Plain("role"), Plain("usage"), Plain("done"), Plain("error")} /\ UNCHANGED upstream
      <3>1. c.kind \in {"role", "usage", "done", "error"} /\ (c.kind = "done" => c = NoChunk)
        BY <2>2 DEF Plain, NoChunk
      <3> QED
        BY <2>2, <3>1
           DEF ConverterInv, ConverterTypeOK, ChunkInPlace, PhaseKnown, PhaseNow,
               ConformingInv, BlocksAgree, OpenCalls, CallsNoted, SendingKnown, CallReady,
               FinishKnown, InHand, Fresh, converterVars, historyVars
    <2>3. CASE /\ c = Plain("text") /\ MayTalk
               /\ upstream' = [upstream EXCEPT !.current = Text]
      <3>1. c.kind = "text" /\ ~upstream.finished
        BY <2>3, <2>6 DEF Plain, Conforms
      <3>2. /\ upstream'.current = Text /\ upstream'.announced = upstream.announced
            /\ upstream'.finished = upstream.finished
        BY <2>3 DEF ConverterInv, ConverterTypeOK, Senders
      <3> QED
        BY <3>1, <3>2
           DEF ConverterInv, ConverterTypeOK, ChunkInPlace, PhaseKnown, PhaseNow,
               ConformingInv, BlocksAgree, OpenCalls, CallsNoted, SendingKnown, CallReady,
               FinishKnown, InHand, Fresh, converterVars, historyVars
    <2>4. CASE /\ c = Plain("finish") /\ MayTalk
               /\ upstream' = [upstream EXCEPT !.finished = TRUE]
      <3>1. c.kind = "finish" /\ ~upstream.finished
        BY <2>4, <2>6 DEF Plain, Conforms
      <3>2. /\ upstream'.current = upstream.current /\ upstream'.announced = upstream.announced
            /\ upstream'.finished
        BY <2>4 DEF ConverterInv, ConverterTypeOK, Senders
      <3> QED
        BY <3>1, <3>2
           DEF ConverterInv, ConverterTypeOK, ChunkInPlace, PhaseKnown, PhaseNow,
               ConformingInv, BlocksAgree, OpenCalls, CallsNoted, SendingKnown, CallReady,
               FinishKnown, InHand, Fresh, converterVars, historyVars
    <2>5. CASE /\ c.kind = "tool" /\ c.call \in Calls
               /\ MayBegin(c) \/ MayContinue(c)
               /\ upstream' = [upstream EXCEPT !.announced = @ \cup {c.call}, !.current = c.call]
      <3>1. /\ ~upstream.finished
            /\ \/ /\ c.call \notin upstream.announced /\ c.gives = {"id", "name"}
                  /\ \A other \in upstream.announced : other < c.call
               \/ c.call \in upstream.announced /\ upstream.current = c.call
        BY <2>5, <2>6 DEF Conforms
      <3>2. /\ upstream'.current = c.call /\ upstream'.announced = upstream.announced \cup {c.call}
            /\ upstream'.finished = upstream.finished
        BY <2>5 DEF ConverterInv, ConverterTypeOK, Senders
      <3>3. place = "receive" /\ place' \in {"chunk", "start"} /\ chunk' = c
        BY <2>5
      <3>4. c.call \in upstream.announced => toolCalls[c.call].seen /\ c.call \in OpenCalls
        BY <3>1, <3>3, <2>5 DEF ConverterInv, ConverterTypeOK, ChunkInPlace, PhaseKnown,
           PhaseNow, ConformingInv, BlocksAgree, OpenCalls, CallsNoted, SendingKnown,
           CallReady, FinishKnown, InHand, Fresh, converterVars, historyVars
      <3> QED
        <4>1. UNCHANGED <<client, converterVars>>
          OBVIOUS
        <4>2. /\ BlocksAgree'
              /\ CallsNoted'
              /\ CallReady'
          BY <3>2, <3>3, <4>1 DEF ConverterInv, ConverterTypeOK, ChunkInPlace, PhaseKnown,
             PhaseNow, ConformingInv, BlocksAgree, OpenCalls, CallsNoted, SendingKnown,
             CallReady, FinishKnown, InHand, Fresh, converterVars, historyVars
        <4>3. FinishKnown'
          BY <2>5, <3>1, <3>2, <3>3, <4>1 DEF ConverterInv, ConverterTypeOK, ChunkInPlace,
             PhaseKnown, PhaseNow, ConformingInv, BlocksAgree, OpenCalls, CallsNoted,
             SendingKnown, CallReady, FinishKnown, InHand, Fresh, converterVars,
             historyVars
        <4>4. SendingKnown'
          <5>1. Fresh' => /\ c.gives = {"id", "name"}
                          /\ \A other \in upstream'.announced : other <= c.call
            <6>1. Fresh' => c.call \notin upstream.announced
              BY <3>3, <3>4, <4>1 DEF Fresh, converterVars
            <6>2. upstream.announced \subseteq Nat /\ c.call \in Nat
              BY <2>5, CallsAssumption DEF ConverterInv, ConverterTypeOK, Senders
            <6> QED
              BY <3>1, <3>2, <6>1, <6>2
          <5>2. ~Fresh' => c.call \in OpenCalls'
            <6>1. ~Fresh' => toolCalls[c.call].seen
              BY <2>5, <3>3, <4>1 DEF Fresh, InHand, converterVars
            <6> QED
              BY <2>5, <3>3, <3>4, <4>1, <6>1 DEF ConformingInv, CallsNoted, OpenCalls,
                 converterVars
          <5> QED
            BY <2>5, <3>2, <3>3, <5>1, <5>2 DEF SendingKnown
        <4> QED
          BY <3>3, <4>1, <4>2, <4>3, <4>4 DEF ConformingInv, converterVars
    <2> QED
      <3>1. \/ c.kind # "tool"
            \/ c.kind = "tool" /\ c.call \in Calls
        BY SendsType DEF ConverterInv
      <3> QED
        BY <2>2, <2>3, <2>4, <2>5, <3>1 DEF Sends, ToolDelta, Plain
  <1>14. ASSUME NEW call \in Calls, CloseToolBlock(call) PROVE Kept
    <2>1. /\ call \in OpenCalls /\ client.open = call /\ place \in {"chunk", "finish", "call"}
          /\ toolCalls[call].blockIndex + 1 = client.count /\ toolCalls[call].blockIndex \in Nat
      BY <1>14 DEF CloseToolBlock, ClosesAll, CallStates, ConverterInv, ConverterTypeOK,
                   ChunkInPlace, PhaseKnown, PhaseNow, ConformingInv, BlocksAgree,
                   OpenCalls, CallsNoted, SendingKnown, CallReady, FinishKnown, InHand,
                   Fresh, converterVars, historyVars
    <2>2. client.phase = "started" /\ ~finished /\ ~textOpen
      <3>1. call # Nobody /\ call # Text
        BY DEF Owners
      <3>2. ~finished /\ ~textOpen
        BY <2>1, <3>1 DEF ConformingInv, FinishKnown, BlocksAgree
      <3> QED
        BY <2>1, <3>2 DEF ConverterInv, PhaseKnown, PhaseNow
    <2>3. /\ MessageNext /\ client'.faults = client.faults /\ client'.open = Nobody
          /\ client'.count = client.count
      <3>1. toolCalls[call].blockIndex \in 0..client.count /\ client.count > 0
        BY <2>1 DEF ConverterInv, ConverterTypeOK, Clients
      <3> QED
        BY <1>14, <2>1, <2>2, <3>1, BlockDelivered, BlockExpected
           DEF CloseToolBlock, ConverterInv, ConverterTypeOK, BlockTypes, Owners,
               OpenAfter, Block
    <2>4. /\ \A other \in Calls \ {call} : toolCalls'[other] = toolCalls[other]
          /\ toolCalls'[call].closed /\ toolCalls'[call].started = toolCalls[call].started
          /\ toolCalls'[call].seen = toolCalls[call].seen /\ toolCalls'[call].has = toolCalls[call].has
          /\ toolCalls'[call].blockIndex = toolCalls[call].blockIndex
      BY <1>14 DEF CloseToolBlock, ConverterInv, ConverterTypeOK, CallStates
    <2>5. UNCHANGED <<place, chunk, started, finished, textOpen, blockIdx, usage, historyVars>>
      BY <1>14 DEF CloseToolBlock
    <2>6. OpenCalls = {call} /\ OpenCalls' = {}
      BY <2>1, <2>4 DEF ConverterInv, ConverterTypeOK, ChunkInPlace, PhaseKnown, PhaseNow,
                        ConformingInv, BlocksAgree, OpenCalls, CallsNoted, SendingKnown,
                        CallReady, FinishKnown, InHand, Fresh, converterVars, historyVars
    <2>7. Fresh \/ chunk.kind = "text" \/ chunk.kind = "finish" \/ place = "finish"
      BY <1>14, <2>1 DEF CloseToolBlock, ClosesAll, ConverterInv, ChunkInPlace, Fresh, InHand
    <2>8. CallsNoted' /\ CallReady' /\ FinishKnown'
      BY <2>1, <2>3, <2>4, <2>5, <2>6
         DEF ConverterInv, ConverterTypeOK, ChunkInPlace, PhaseKnown, PhaseNow,
             ConformingInv, BlocksAgree, OpenCalls, CallsNoted, SendingKnown, CallReady,
             FinishKnown, InHand, Fresh, converterVars, historyVars
    <2>9. SendingKnown'
      BY <2>1, <2>4, <2>5, <2>6, <2>7
         DEF ConverterInv, ConverterTypeOK, ChunkInPlace, PhaseKnown, PhaseNow,
             ConformingInv, BlocksAgree, OpenCalls, CallsNoted, SendingKnown, CallReady,
             FinishKnown, InHand, Fresh, converterVars, historyVars
    <2>10. BlocksAgree'
      <3>1. blockIdx' = client'.count /\ ~textOpen' /\ client'.open = Nobody
        BY <2>1, <2>2, <2>3, <2>5 DEF ConformingInv, BlocksAgree
      <3> QED
        BY <3>1, <2>6 DEF BlocksAgree, Owners
    <2> QED
      BY <2>1, <2>2, <2>3, <2>5, <2>8, <2>9, <2>10 DEF ConformingInv
  <1>15. CASE NoteCall
    BY <1>15, NoChunkType
       DEF NoteCall, ClosesText, ToArguments, NextChunk, CallStates, Chunks, ConverterInv,
           ConverterTypeOK, ChunkInPlace, PhaseKnown, PhaseNow, ConformingInv, BlocksAgree,
           OpenCalls, CallsNoted, SendingKnown, CallReady, FinishKnown, InHand, Fresh,
           converterVars, historyVars
  <1>16. CASE StartToolBlock
    <2> DEFINE call == chunk.call
    <2>1. /\ place = "call" /\ call \in Calls /\ OpenCalls = {} /\ ~textOpen
          /\ toolCalls[call].seen /\ ~toolCalls[call].started /\ ~toolCalls[call].closed
          /\ toolCalls[call].blockIndex = client.count /\ blockIdx = client.count
      BY <1>16, CallsAssumption DEF StartToolBlock, ConverterInv, ConverterTypeOK,
         ChunkInPlace, PhaseKnown, PhaseNow, ConformingInv, BlocksAgree, OpenCalls,
         CallsNoted, SendingKnown, CallReady, FinishKnown, InHand, Fresh, converterVars,
         historyVars
    <2>2. client.phase = "started" /\ client.open = Nobody
      BY <2>1 DEF OpenKnown, ConverterInv, ConverterTypeOK, ChunkInPlace, PhaseKnown,
                  PhaseNow, ConformingInv, BlocksAgree, OpenCalls, CallsNoted,
                  SendingKnown, CallReady, FinishKnown, InHand, Fresh, converterVars,
                  historyVars
    <2>3. /\ MessageNext /\ client'.faults = client.faults /\ client'.open = call
          /\ client'.count = client.count + 1
      <3>1. toolCalls[call].blockIndex \in 0..client.count
        BY <2>1 DEF ConverterInv, ConverterTypeOK, Clients
      <3> QED
        BY <1>16, <2>1, <2>2, <3>1, BlockDelivered, BlockExpected
           DEF StartToolBlock, ConverterInv, ConverterTypeOK, BlockTypes, Owners,
               OpenAfter, Block
    <2>4. /\ \A other \in Calls \ {call} : toolCalls'[other] = toolCalls[other]
          /\ ~toolCalls'[call].closed /\ toolCalls'[call].started
          /\ toolCalls'[call].seen /\ toolCalls'[call].has = toolCalls[call].has
          /\ toolCalls'[call].blockIndex = toolCalls[call].blockIndex
      BY <1>16, <2>1 DEF StartToolBlock, ConverterInv, ConverterTypeOK, CallStates
    <2>5. /\ ToArguments /\ blockIdx' = blockIdx + 1
          /\ UNCHANGED <<started, finished, textOpen, usage, historyVars>>
      BY <1>16 DEF StartToolBlock
    <2>6. OpenCalls' = {call}
      BY <2>1, <2>4 DEF OpenCalls
    <2>7. BlocksAgree'
      BY <2>1, <2>3, <2>5, <2>6 DEF ConverterInv, ConverterTypeOK, ChunkInPlace,
         PhaseKnown, PhaseNow, ConformingInv, BlocksAgree, OpenCalls, CallsNoted,
         SendingKnown, CallReady, FinishKnown, InHand, Fresh, converterVars, historyVars
    <2>8. CallsNoted'
      BY <2>1, <2>4, <2>5, <2>6 DEF ConverterInv, ConverterTypeOK, ChunkInPlace,
         PhaseKnown, PhaseNow, ConformingInv, BlocksAgree, OpenCalls, CallsNoted,
         SendingKnown, CallReady, FinishKnown, InHand, Fresh, converterVars, historyVars
    <2>9. SendingKnown' /\ CallReady' /\ FinishKnown'
      BY <2>1, <2>2, <2>3, <2>4, <2>5, <2>6, NoChunkType DEF ToArguments, NextChunk,
         ConverterInv, ConverterTypeOK, ChunkInPlace, PhaseKnown, PhaseNow, ConformingInv,
         BlocksAgree, OpenCalls, CallsNoted, SendingKnown, CallReady, FinishKnown, InHand,
         Fresh, converterVars, historyVars
    <2> QED
      BY <2>1, <2>3, <2>5, <2>7, <2>8, <2>9 DEF ConformingInv
  <1> QED
    BY <1>1, <1>2, <1>3, <1>4, <1>5, <1>6, <1>7, <1>8, <1>9, <1>10, <1>11, <1>12, <1>13,
       <1>14, <1>15, <1>16
       DEF ConverterNext, Returned, vars

\* If upstream finishes with each call before the next, what the converter
\* believes of the client's blocks is so (stream.go:26-49, 165-274).
THEOREM BlocksAlwaysAgree ==
    ASSUME Habits = {}
    PROVE  ConverterSpec => []BlocksAgree
  <1>1. ConverterInit => ConverterInv /\ ConformingInv
    BY ConverterInvInit, ConformingInvInit
  <1>2. ConverterInv /\ ConformingInv /\ [ConverterNext]_vars => (ConverterInv /\ ConformingInv)'
    BY ConverterInvStep, ConformingStep, SendsConform DEF ReceivesConforming
  <1>3. ConformingInv => BlocksAgree
    BY DEF ConformingInv
  <1> QED
    BY <1>1, <1>2, <1>3, PTL DEF ConverterSpec

\* If upstream finishes with each call before the next, the converter
\* implements the message of SSEMessage.tla: every event it writes is one the
\* client expects (stream.go:67-162; README.md:16).
THEOREM StreamIsWellFormed ==
    ASSUME Habits = {}
    PROVE  ConverterSpec => WellFormed
  <1>1. ConverterInit => ConverterInv /\ ConformingInv /\ MessageInit
    BY ConverterInvInit, ConformingInvInit DEF ConverterInit
  <1>2. ConverterInv /\ ConformingInv /\ [ConverterNext]_vars =>
          (ConverterInv /\ ConformingInv)' /\ [MessageNext]_client
    BY ConverterInvStep, ConformingStep, SendsConform DEF ReceivesConforming
  <1> QED
    BY <1>1, <1>2, PTL DEF ConverterSpec, WellFormed, MessageSpec
===============================================================================
