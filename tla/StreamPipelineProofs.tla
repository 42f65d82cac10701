------------------------- MODULE StreamPipelineProofs -------------------------
(***************************************************************************)
(* StreamPipeline, proved for any lines upstream may send, any capacity of *)
(* the channels and any idle timeout: its types and the safety properties  *)
(* that MCStreamPipeline checks.                                           *)
(***************************************************************************)
EXTENDS StreamPipeline, SequenceTheorems, TLAPS

-----------------------------------------------------------------------------
(* Types *)

Monitors == [closed : BOOLEAN, age : 0..IdleTicks, tick : BOOLEAN, timedOut : BOOLEAN]

LEMMA GoroutineNames ==
    /\ Goroutines = {"reader", "parser", "guard", "adapter", "handler"}
    /\ Senders = {"reader", "parser", "guard", "adapter"}
<1>1. DOMAIN Chain = {1, 2, 3, 4, 5}
  BY DEF Chain
<1>2. Goroutines = {Chain[1], Chain[2], Chain[3], Chain[4], Chain[5]}
  BY <1>1 DEF Goroutines
<1> QED BY <1>2 DEF Chain, Senders

\* Each goroutine of the protocol but the first has a sender among them.
LEMMA FromAnother ==
    ASSUME protocol \in AllProtocols, NEW g \in Members(protocol) \ {"reader"}
    PROVE  From(g) \in Senders \cap Members(protocol)
BY GoroutineNames DEF AllProtocols, Members, From

LEMMA ItemTypes ==
    \A kind \in {"error", "finish", "done", "stop"} : Item(kind) \in Items
BY DEF Item, Items, ItemKinds

LEMMA SequencesOfItems ==
    /\ <<>> \in Seq(Items)
    /\ \A item \in Items : <<item>> \in Seq(Items)
    /\ \A item \in Items, other \in Items : <<item, other>> \in Seq(Items)
OBVIOUS

LEMMA ParsedType ==
    ASSUME NEW item \in Items
    PROVE  [item EXCEPT !.kind = Parsed(item.kind)] \in Items
BY DEF Items, ItemKinds, LineKinds, Parsed

LEMMA Protocol == PipelineTypeOK => protocol \in AllProtocols
BY ProtocolsAssumption DEF PipelineTypeOK

\* What is taken from a channel is an item.
LEMMA NextItemType ==
    ASSUME PipelineTypeOK, NEW g \in Members(protocol) \ {"reader"}, Ready(g)
    PROVE  /\ NextItem(g) \in Items
           /\ channel[From(g)] \in Seq(Items) /\ channel[From(g)] # <<>>
BY FromAnother, Protocol DEF PipelineTypeOK, NextItem, Ready

LEMMA TakesType ==
    ASSUME PipelineTypeOK, NEW g \in Members(protocol) \ {"reader"}, Ready(g),
           NEW items \in Seq(Items), NEW leaves \in BOOLEAN, Takes(g, items, leaves),
           saw' \subseteq {"terminal", "failed"}
    PROVE  PipelineTypeOK'
<1>1. /\ From(g) \in Senders /\ g \in Goroutines
      /\ channel[From(g)] \in Seq(Items) /\ channel[From(g)] # <<>>
  BY FromAnother, Protocol, NextItemType, GoroutineNames DEF Members
<1>2. /\ Tail(channel[From(g)]) \in Seq(Items)
      /\ Len(Tail(channel[From(g)])) = Len(channel[From(g)]) - 1
      /\ Len(channel[From(g)]) \in Nat
  BY <1>1
<1>3. channel' \in [Senders -> Seq(Items)]
  BY <1>1, <1>2 DEF Takes, PipelineTypeOK
<1>4. Cap(From(g)) \in Nat
  BY CapAssumption DEF Cap
<1>5. \A s \in Senders : Len(channel'[s]) <= Cap(s)
  BY <1>1, <1>2, <1>4 DEF Takes, PipelineTypeOK
<1>6. hold' \in [Goroutines -> Seq(Items)]
  BY <1>1 DEF Takes, PipelineTypeOK
<1>7. leaving' \subseteq running'
  BY DEF Takes, PipelineTypeOK, Ready, Idle
<1> QED
  BY <1>3, <1>5, <1>6, <1>7 DEF Takes, PipelineTypeOK, upstreamVars, readerVars, Cap

LEMMA LeavesType ==
    ASSUME PipelineTypeOK, NEW g \in running, NEW items \in Seq(Items), Leaves(g, items),
           UNCHANGED readerVars
    PROVE  PipelineTypeOK'
<1>1. hold' \in [Goroutines -> Seq(Items)]
  BY DEF Leaves, PipelineTypeOK
<1>2. leaving' \subseteq running'
  BY DEF Leaves, PipelineTypeOK
<1> QED
  BY <1>1, <1>2 DEF Leaves, PipelineTypeOK, upstreamVars, readerVars

LEMMA SendsType ==
    ASSUME PipelineTypeOK, NEW g \in Senders, Sends(g)
    PROVE  PipelineTypeOK'
<1>1. hold[g] \in Seq(Items) /\ hold[g] # <<>> /\ channel[g] \in Seq(Items)
  BY GoroutineNames DEF Sends, PipelineTypeOK
<1> Cap(g) \in Nat /\ Len(channel[g]) \in Nat
  BY <1>1, CapAssumption DEF Cap
<1> Len(channel[g]) < Cap(g)
  BY DEF Sends, Full
<1>2. Head(hold[g]) \in Items /\ Tail(hold[g]) \in Seq(Items)
  BY <1>1
<1>3. /\ Append(channel[g], Head(hold[g])) \in Seq(Items)
      /\ Len(Append(channel[g], Head(hold[g]))) = Len(channel[g]) + 1
  BY <1>1, <1>2
<1>4. channel' \in [Senders -> Seq(Items)] /\ hold' \in [Goroutines -> Seq(Items)]
  BY <1>2, <1>3 DEF Sends, PipelineTypeOK
<1>5. \A s \in Senders : Len(channel'[s]) <= Cap(s)
  BY <1>1, <1>3 DEF Sends, PipelineTypeOK
<1> QED
  BY <1>4, <1>5 DEF Sends, PipelineTypeOK, upstreamVars, readerVars, Cap

LEMMA MonitorTypes ==
    ASSUME PipelineTypeOK
    PROVE  /\ Closed(reader.timedOut) \in Monitors /\ Closed(TRUE) \in Monitors
           /\ [reader EXCEPT !.age = 0] \in Monitors
           /\ [reader EXCEPT !.tick = FALSE] \in Monitors
           /\ [reader EXCEPT !.age = IF @ < IdleTicks THEN @ + 1 ELSE @, !.tick = TRUE] \in Monitors
           /\ reader \in Monitors
<1>1. /\ reader \in Monitors /\ IdleTicks \in Nat /\ 0 \in 0 .. IdleTicks
      /\ \A age \in 0 .. IdleTicks :
            (IF age < IdleTicks THEN age + 1 ELSE age) \in 0 .. IdleTicks
  BY IdleAssumption DEF PipelineTypeOK, Monitors
<1>2. reader.age \in 0 .. IdleTicks /\ reader.timedOut \in BOOLEAN
  BY <1>1 DEF Monitors
<1>3. Closed(reader.timedOut) \in Monitors /\ Closed(TRUE) \in Monitors
  BY <1>1, <1>2 DEF Closed, Monitors
<1> DEFINE later == IF reader.age < IdleTicks THEN reader.age + 1 ELSE reader.age
<1>4. later \in 0 .. IdleTicks
  BY <1>1, <1>2
<1> HIDE DEF later
<1>5. /\ [reader EXCEPT !.age = 0] \in Monitors
      /\ [reader EXCEPT !.tick = FALSE] \in Monitors
      /\ [reader EXCEPT !.age = later, !.tick = TRUE] \in Monitors
  BY <1>1, <1>4 DEF Monitors
<1> QED
  BY <1>1, <1>3, <1>5 DEF later

LEMMA ReturnsType ==
    ASSUME PipelineTypeOK, NEW g \in Goroutines, Returns(g)
    PROVE  PipelineTypeOK'
<1>1. reader' \in Monitors
  BY MonitorTypes DEF Returns
<1>2. bodyClosed' \in BOOLEAN
  BY DEF Returns, PipelineTypeOK
<1>3. leaving' \subseteq running' /\ running' \subseteq Members(protocol')
  BY DEF Returns, PipelineTypeOK, Members
<1> QED
  BY <1>1, <1>2, <1>3 DEF Returns, PipelineTypeOK, upstreamVars, Members, Monitors

LEMMA UpstreamType ==
    ASSUME PipelineTypeOK,
           \/ \E kind \in LineKinds : UpstreamSends(kind)
           \/ \E how \in {"ended", "broken"} : UpstreamStops(how)
           \/ ClientLeaves
    PROVE  PipelineTypeOK'
<1>1. ASSUME NEW kind \in LineKinds, UpstreamSends(kind)
      PROVE  PipelineTypeOK'
  <2>1. sent' \in Seq(LineKinds) /\ Len(sent') = Len(sent) + 1 /\ Len(sent) \in Nat
    BY <1>1 DEF UpstreamSends, PipelineTypeOK
  <2> QED
    BY <1>1, <2>1 DEF UpstreamSends, PipelineTypeOK, readerVars
<1>2. ASSUME NEW how \in {"ended", "broken"}, UpstreamStops(how)
      PROVE  PipelineTypeOK'
  BY <1>2 DEF UpstreamStops, PipelineTypeOK, readerVars
<1>3. ASSUME ClientLeaves
      PROVE  PipelineTypeOK'
  BY <1>3 DEF ClientLeaves, PipelineTypeOK, readerVars, upstreamVars
<1> QED BY <1>1, <1>2, <1>3

LEMMA ReaderType ==
    ASSUME PipelineTypeOK, ReaderStep \/ TimePasses \/ MonitorChecks
    PROVE  PipelineTypeOK'
<1> USE GoroutineNames
<1>0. /\ received \in Nat /\ scanned \in Nat /\ Len(sent) \in Nat /\ sent \in Seq(LineKinds)
      /\ scanned <= received /\ received <= Len(sent)
  BY DEF PipelineTypeOK
<1>1. CASE ReaderReceives
  <2>1. reader' \in Monitors /\ received' \in 0 .. Len(sent) /\ scanned \in 0 .. received'
    BY <1>1, <1>0, MonitorTypes DEF ReaderReceives
  <2> QED
    BY <1>1, <2>1 DEF ReaderReceives, PipelineTypeOK, upstreamVars, Monitors
<1>2. CASE ReaderScans
  <2>1. scanned + 1 \in 1 .. Len(sent) /\ scanned + 1 \in 0 .. received
    BY <1>2, <1>0 DEF ReaderScans
  <2>2. [kind |-> sent[scanned + 1], line |-> scanned + 1] \in Items
    BY <1>0, <2>1 DEF Items, ItemKinds
  <2>3. hold' \in [Goroutines -> Seq(Items)]
    BY <1>2, <2>2 DEF ReaderScans, PipelineTypeOK
  <2> QED
    BY <1>2, <2>1, <2>3 DEF ReaderScans, PipelineTypeOK, upstreamVars
<1>3. CASE ReaderStops
  <2>1. "reader" \in running
    BY <1>3 DEF ReaderStops, Idle
  <2>2. <<Item("error")>> \in Seq(Items) /\ <<>> \in Seq(Items)
    BY ItemTypes
  <2> QED
    BY <1>3, <2>1, <2>2, LeavesType DEF ReaderStops
<1>4. CASE ReaderAbandons
  BY <1>4, LeavesType, SequencesOfItems DEF ReaderAbandons
<1>5. CASE Sends("reader")
  BY <1>5, SendsType
<1>6. CASE Returns("reader")
  BY <1>6, ReturnsType
<1>7. CASE TimePasses
  <2>1. reader' \in Monitors
    BY <1>7, MonitorTypes DEF TimePasses
  <2> QED
    BY <1>7, <2>1 DEF TimePasses, PipelineTypeOK, upstreamVars, Monitors
<1>8. CASE MonitorChecks
  <2>1. reader' \in Monitors /\ bodyClosed' \in BOOLEAN
    BY <1>8, MonitorTypes DEF MonitorChecks, PipelineTypeOK
  <2> QED
    BY <1>8, <2>1 DEF MonitorChecks, PipelineTypeOK, upstreamVars, Monitors
<1> QED
  BY <1>1, <1>2, <1>3, <1>4, <1>5, <1>6, <1>7, <1>8 DEF ReaderStep

LEMMA ParserType ==
    ASSUME PipelineTypeOK, ParserStep
    PROVE  PipelineTypeOK'
<1> USE GoroutineNames
<1>1. CASE ParserTakes
  <2> DEFINE line == NextItem("parser")
             items == <<[line EXCEPT !.kind = Parsed(line.kind)]>>
             last == line.kind = "error" \/ (protocol = "chat" /\ line.kind # "data")
  <2>1. "parser" \in Members(protocol) \ {"reader"} /\ Ready("parser")
    BY <1>1 DEF ParserTakes, Members
  <2>2. items \in Seq(Items)
    BY <2>1, NextItemType, ParsedType, SequencesOfItems
  <2>3. Takes("parser", items, last) /\ UNCHANGED saw
    BY <1>1 DEF ParserTakes
  <2> QED
    BY <2>1, <2>2, <2>3, TakesType DEF PipelineTypeOK
<1>2. CASE ParserCancelled
  BY <1>2, LeavesType, ItemTypes, SequencesOfItems DEF ParserCancelled, Idle
<1>3. CASE ParserEnds
  <2>1. (IF protocol = "chat" THEN <<Item("error")>> ELSE <<>>) \in Seq(Items)
    BY ItemTypes, SequencesOfItems
  <2> QED
    BY <1>3, <2>1, LeavesType DEF ParserEnds, Ended, Idle
<1> QED
  BY <1>1, <1>2, <1>3, SendsType, ReturnsType DEF ParserStep

LEMMA GuardType ==
    ASSUME PipelineTypeOK, GuardStep
    PROVE  PipelineTypeOK'
<1> USE GoroutineNames
<1>1. CASE GuardTakes
  <2>1. "guard" \in Members(protocol) \ {"reader"} /\ Ready("guard")
    BY <1>1 DEF GuardTakes, Ready, Idle, PipelineTypeOK
  <2>2. <<NextItem("guard")>> \in Seq(Items)
    BY <2>1, NextItemType, SequencesOfItems
  <2>3. Takes("guard", <<NextItem("guard")>>, FALSE) /\ saw' \subseteq {"terminal", "failed"}
    BY <1>1 DEF GuardTakes, PipelineTypeOK
  <2> QED
    BY <2>1, <2>2, <2>3, TakesType
<1>2. CASE GuardEnds
  <2>1. (IF saw = {} THEN <<Item("error")>> ELSE <<>>) \in Seq(Items)
    BY ItemTypes, SequencesOfItems
  <2> QED
    BY <1>2, <2>1, LeavesType DEF GuardEnds, Ended, Idle
<1> QED
  BY <1>1, <1>2, SendsType, ReturnsType DEF GuardStep

LEMMA AdapterType ==
    ASSUME PipelineTypeOK, AdapterStep
    PROVE  PipelineTypeOK'
<1> USE GoroutineNames
<1>1. CASE AdapterTakes
  <2> DEFINE chunk == NextItem("adapter")
             items == IF chunk.kind = "done" THEN <<Item("finish"), Item("done")>> ELSE <<chunk>>
  <2>1. "adapter" \in Members(protocol) \ {"reader"} /\ Ready("adapter")
    BY <1>1 DEF AdapterTakes, Ready, Idle, PipelineTypeOK
  <2>2. items \in Seq(Items)
    BY <2>1, NextItemType, ItemTypes, SequencesOfItems
  <2>3. Takes("adapter", items, chunk.kind = "error") /\ UNCHANGED saw
    BY <1>1 DEF AdapterTakes
  <2> QED
    BY <2>1, <2>2, <2>3, TakesType DEF PipelineTypeOK
<1>2. CASE AdapterEnds
  BY <1>2, LeavesType, SequencesOfItems DEF AdapterEnds, Ended, Idle
<1> QED
  BY <1>1, <1>2, SendsType, ReturnsType DEF AdapterStep

LEMMA HandlerType ==
    ASSUME PipelineTypeOK, HandlerStep
    PROVE  PipelineTypeOK'
<1> USE GoroutineNames
<1>1. CASE HandlerTakes
  <2> DEFINE chunk == NextItem("handler")
             items == IF chunk.kind \in {"error", "done"} THEN <<>> ELSE <<chunk>>
  <2>1. "handler" \in Members(protocol) \ {"reader"} /\ Ready("handler")
    BY <1>1 DEF HandlerTakes, Members
  <2>2. items \in Seq(Items)
    BY <2>1, NextItemType, SequencesOfItems
  <2>3. Takes("handler", items, chunk.kind = "error") /\ UNCHANGED saw
    BY <1>1 DEF HandlerTakes
  <2> QED
    BY <2>1, <2>2, <2>3, TakesType DEF PipelineTypeOK
<1>2. CASE HandlerEnds
  BY <1>2, LeavesType, ItemTypes, SequencesOfItems DEF HandlerEnds, Ended, Idle
<1>3. CASE HandlerWrites
  <2>1. hold["handler"] \in Seq(Items) /\ hold["handler"] # <<>>
    BY <1>3 DEF HandlerWrites, PipelineTypeOK
  <2>2. Head(hold["handler"]) \in Items /\ Tail(hold["handler"]) \in Seq(Items)
    BY <2>1
  <2>3. written' \in Seq(Items)
    BY <1>3, <2>2 DEF HandlerWrites, PipelineTypeOK
  <2>4. hold' \in [Goroutines -> Seq(Items)]
    BY <1>3, <2>2 DEF HandlerWrites, PipelineTypeOK
  <2> QED
    BY <1>3, <2>3, <2>4 DEF HandlerWrites, PipelineTypeOK, upstreamVars, readerVars
<1>4. CASE HandlerWriteFails
  BY <1>4, LeavesType, SequencesOfItems DEF HandlerWriteFails
<1> QED
  BY <1>1, <1>2, <1>3, <1>4, ReturnsType DEF HandlerStep

LEMMA PipelineTypeStep == PipelineTypeOK /\ [PipelineNext]_vars => PipelineTypeOK'
<1> SUFFICES ASSUME PipelineTypeOK, [PipelineNext]_vars
             PROVE  PipelineTypeOK'
  OBVIOUS
<1>1. CASE UNCHANGED vars
  BY <1>1 DEF vars, PipelineTypeOK
<1> QED
  BY <1>1, UpstreamType, ReaderType, ParserType, GuardType, AdapterType, HandlerType
  DEF PipelineNext, Over

LEMMA PipelineTypeInit == PipelineInit => PipelineTypeOK
<1> SUFFICES ASSUME PipelineInit PROVE PipelineTypeOK
  OBVIOUS
<1>1. channel \in [Senders -> Seq(Items)] /\ \A g \in Senders : Len(channel[g]) <= Cap(g)
  BY CapAssumption DEF PipelineInit, Cap
<1>2. reader \in Monitors
  BY IdleAssumption DEF PipelineInit, Monitors
<1>3. sent \in Seq(LineKinds) /\ Len(sent) = 0 /\ written \in Seq(Items)
  BY DEF PipelineInit
<1>4. hold \in [Goroutines -> Seq(Items)]
  BY DEF PipelineInit
<1>5. running \subseteq Members(protocol) /\ leaving \subseteq running
  BY DEF PipelineInit
<1>6. /\ protocol \in Protocols /\ wire \in {"open", "ended", "broken"}
      /\ saw \subseteq {"terminal", "failed"}
  BY DEF PipelineInit
<1>7. bodyClosed \in BOOLEAN /\ clientGone \in BOOLEAN
  BY DEF PipelineInit
<1>8. received \in 0 .. Len(sent) /\ scanned \in 0 .. received
  <2>1. received = 0 /\ scanned = 0
    BY DEF PipelineInit
  <2> QED
    BY <1>3, <2>1
<1> QED
  BY <1>1, <1>2, <1>3, <1>4, <1>5, <1>6, <1>7, <1>8 DEF PipelineTypeOK, Monitors

\* The types of the pipeline: nothing is sent into a full channel, no more is
\* scanned than was read, and only goroutines that run are about to return.
THEOREM PipelineTyped == PipelineSpec => []PipelineTypeOK
BY PipelineTypeInit, PipelineTypeStep, PTL DEF PipelineSpec

-----------------------------------------------------------------------------
(* What a buffer carries *)

(***************************************************************************)
(* buf has, in their order, those of the lines numbered lo + 1 to hi that  *)
(* are among lines, and no other of them.                                  *)
(***************************************************************************)
Carries(buf, lines, lo, hi) ==
    /\ \A i \in 1 .. Len(buf) : buf[i].line \in lines => lo < buf[i].line /\ buf[i].line <= hi
    /\ \A i, j \in 1 .. Len(buf) :
          i < j /\ buf[i].line \in lines /\ buf[j].line \in lines => buf[i].line < buf[j].line
    /\ \A n \in lines : lo < n /\ n <= hi => \E i \in 1 .. Len(buf) : buf[i].line = n

\* A buffer without any of the lines.
LEMMA CarriesNone ==
    ASSUME NEW buf \in Seq(Items), NEW lines \in SUBSET Nat, NEW lo \in Nat, NEW hi \in Nat,
           \A i \in 1 .. Len(buf) : buf[i].line \notin lines,
           \A n \in lines : ~(lo < n /\ n <= hi)
    PROVE  Carries(buf, lines, lo, hi)
BY DEF Carries

LEMMA CarriesOne ==
    ASSUME NEW item \in Items, NEW lines \in SUBSET Nat, NEW lo \in Nat, NEW hi \in Nat,
           item.line \in lines => lo < item.line /\ item.line <= hi,
           \A n \in lines : lo < n /\ n <= hi => n = item.line
    PROVE  Carries(<<item>>, lines, lo, hi)
BY DEF Carries

\* Nothing in the buffer, nothing in the interval.
LEMMA CarriesEmpty ==
    ASSUME NEW lines \in SUBSET Nat, NEW lo \in Nat, NEW hi \in Nat,
           Carries(<<>>, lines, lo, hi)
    PROVE  \A n \in lines : ~(lo < n /\ n <= hi)
BY DEF Carries

\* Fewer lines count.
LEMMA CarriesFewer ==
    ASSUME NEW buf \in Seq(Items), NEW lines \in SUBSET Nat, NEW fewer \in SUBSET lines,
           NEW lo \in Nat, NEW hi \in Nat, Carries(buf, lines, lo, hi)
    PROVE  Carries(buf, fewer, lo, hi)
BY DEF Carries

\* Taking the first item moves the lower end behind it.
Behind(item, lines, lo) == IF item.line \in lines THEN item.line ELSE lo

LEMMA CarriesTail ==
    ASSUME NEW buf \in Seq(Items), buf # <<>>, NEW lines \in SUBSET Nat,
           NEW lo \in Nat, NEW hi \in Nat, lo <= hi, Carries(buf, lines, lo, hi)
    PROVE  LET mid == Behind(Head(buf), lines, lo) IN
           /\ mid \in Nat /\ lo <= mid /\ mid <= hi
           /\ Carries(<<Head(buf)>>, lines, lo, mid)
           /\ Carries(Tail(buf), lines, mid, hi)
<1> DEFINE mid == Behind(Head(buf), lines, lo)
           rest == Tail(buf)
<1>1. /\ Head(buf) = buf[1] /\ rest \in Seq(Items) /\ Len(rest) = Len(buf) - 1
      /\ Len(buf) \in Nat /\ Len(buf) >= 1
      /\ \A i \in 1 .. Len(rest) : rest[i] = buf[i + 1]
      /\ \A i \in 1 .. Len(buf) : buf[i] \in Items
  OBVIOUS
<1>2. Head(buf) \in Items /\ \A item \in Items : item.line \in Nat
  BY <1>1 DEF Items
<1>3. mid \in Nat /\ lo <= mid /\ mid <= hi
  BY <1>1, <1>2 DEF Carries, Behind
<1>4. Carries(<<Head(buf)>>, lines, lo, mid)
  <2>1. \A n \in lines : lo < n /\ n <= mid => n = Head(buf).line
    <3> SUFFICES ASSUME NEW n \in lines, lo < n, n <= mid
                 PROVE  n = Head(buf).line
      OBVIOUS
    <3>1. Head(buf).line \in lines /\ mid = Head(buf).line /\ n \in Nat
      BY <1>2 DEF Behind
    <3>2. PICK i \in 1 .. Len(buf) : buf[i].line = n
      BY <1>3, <3>1 DEF Carries
    <3>3. ~(1 < i)
      BY <1>1, <3>1, <3>2, <1>2 DEF Carries
    <3> QED BY <3>2, <3>3, <1>1
  <2>2. Head(buf).line \in lines => lo < Head(buf).line /\ Head(buf).line <= mid
    BY <1>1, <1>2 DEF Behind, Carries
  <2> QED BY <1>2, <1>3, <2>1, <2>2, CarriesOne
<1>5. Carries(rest, lines, mid, hi)
  <2>1. ASSUME NEW i \in 1 .. Len(rest), rest[i].line \in lines
        PROVE  mid < rest[i].line /\ rest[i].line <= hi
    <3>1. rest[i] = buf[i + 1] /\ i + 1 \in 1 .. Len(buf) /\ 1 < i + 1 /\ 1 \in 1 .. Len(buf)
      BY <1>1
    <3> QED BY <3>1, <1>1, <2>1 DEF Carries, Behind
  <2>2. ASSUME NEW i \in 1 .. Len(rest), NEW j \in 1 .. Len(rest), i < j,
               rest[i].line \in lines, rest[j].line \in lines
        PROVE  rest[i].line < rest[j].line
    <3>1. /\ rest[i] = buf[i + 1] /\ i + 1 \in 1 .. Len(buf)
          /\ rest[j] = buf[j + 1] /\ j + 1 \in 1 .. Len(buf) /\ i + 1 < j + 1
      BY <1>1, <2>2
    <3> QED BY <3>1, <2>2 DEF Carries
  <2>3. ASSUME NEW n \in lines, mid < n, n <= hi
        PROVE  \E i \in 1 .. Len(rest) : rest[i].line = n
    <3>1. n \in Nat /\ lo < n
      BY <1>3, <2>3
    <3>2. PICK i \in 1 .. Len(buf) : buf[i].line = n
      BY <3>1, <2>3 DEF Carries
    <3>3. i # 1
      BY <3>1, <3>2, <2>3, <1>1, <1>3 DEF Behind
    <3>4. i - 1 \in 1 .. Len(rest) /\ rest[i - 1] = buf[i]
      BY <3>2, <3>3, <1>1
    <3> QED BY <3>2, <3>4
  <2> QED BY <2>1, <2>2, <2>3 DEF Carries
<1> QED BY <1>3, <1>4, <1>5

\* Sending one item on moves the upper end.
LEMMA CarriesAppend ==
    ASSUME NEW buf \in Seq(Items), NEW item \in Items, NEW lines \in SUBSET Nat,
           NEW lo \in Nat, NEW mid \in Nat, NEW hi \in Nat, lo <= mid, mid <= hi,
           Carries(buf, lines, lo, mid), Carries(<<item>>, lines, mid, hi)
    PROVE  Carries(Append(buf, item), lines, lo, hi)
<1> DEFINE all == Append(buf, item)
<1>1. /\ Len(all) = Len(buf) + 1 /\ Len(buf) \in Nat /\ all[Len(buf) + 1] = item
      /\ \A i \in 1 .. Len(buf) : all[i] = buf[i] /\ buf[i] \in Items
  OBVIOUS
<1>2. \A other \in Items : other.line \in Nat
  BY DEF Items
<1>3. item.line \in lines => mid < item.line /\ item.line <= hi
  BY DEF Carries
<1>4. \A n \in lines : mid < n /\ n <= hi => item.line = n
  BY DEF Carries
<1> HIDE DEF all
<1>5. ASSUME NEW i \in 1 .. Len(all), all[i].line \in lines
      PROVE  lo < all[i].line /\ all[i].line <= hi
  <2>1. CASE i = Len(buf) + 1
    BY <2>1, <1>1, <1>2, <1>3, <1>5
  <2>2. CASE i \in 1 .. Len(buf)
    BY <2>2, <1>1, <1>2, <1>5 DEF Carries
  <2> QED BY <2>1, <2>2, <1>1
<1>6. ASSUME NEW i \in 1 .. Len(all), NEW j \in 1 .. Len(all), i < j,
             all[i].line \in lines, all[j].line \in lines
      PROVE  all[i].line < all[j].line
  <2>1. i \in 1 .. Len(buf)
    BY <1>1, <1>6
  <2>2. all[i].line <= mid /\ all[i].line \in Nat
    BY <2>1, <1>1, <1>2, <1>6 DEF Carries
  <2>3. CASE j = Len(buf) + 1
    <3>1. mid < item.line /\ item.line \in Nat /\ all[j] = item
      BY <2>3, <1>1, <1>2, <1>3, <1>6
    <3> QED BY <2>2, <3>1
  <2>4. CASE j \in 1 .. Len(buf)
    <3>1. all[i] = buf[i] /\ all[j] = buf[j]
      BY <2>1, <2>4, <1>1
    <3> QED BY <2>1, <2>4, <3>1, <1>6 DEF Carries
  <2> QED BY <2>3, <2>4, <1>1
<1>7. ASSUME NEW n \in lines, lo < n, n <= hi
      PROVE  \E i \in 1 .. Len(all) : all[i].line = n
  <2>1. CASE n <= mid
    <3>1. PICK i \in 1 .. Len(buf) : buf[i].line = n
      BY <2>1, <1>7 DEF Carries
    <3> QED BY <3>1, <1>1
  <2>2. CASE mid < n
    <3>1. item.line = n /\ Len(buf) + 1 \in 1 .. Len(all)
      BY <2>2, <1>7, <1>4, <1>1
    <3> QED BY <3>1, <1>1
  <2> QED BY <2>1, <2>2
<1> QED BY <1>5, <1>6, <1>7 DEF Carries, all

\* An interval without any of the lines may be added in front.
LEMMA CarriesFrom ==
    ASSUME NEW buf \in Seq(Items), NEW lines \in SUBSET Nat,
           NEW lo \in Nat, NEW mid \in Nat, NEW hi \in Nat, lo <= mid,
           Carries(<<>>, lines, lo, mid), Carries(buf, lines, mid, hi)
    PROVE  Carries(buf, lines, lo, hi)
<1>1. \A n \in lines : n \in Nat /\ ~(lo < n /\ n <= mid)
  BY CarriesEmpty
<1>2. \A i \in 1 .. Len(buf) : buf[i].line \in lines => buf[i].line \in Nat
  OBVIOUS
<1> QED
  BY <1>1, <1>2 DEF Carries

\* More lines behind the interval make no difference.
LEMMA CarriesMore ==
    ASSUME NEW buf \in Seq(Items), NEW lines \in SUBSET Nat, NEW more \in SUBSET Nat,
           NEW lo \in Nat, NEW hi \in Nat, NEW last \in Nat, hi <= last,
           \A n \in 1 .. last : n \in lines <=> n \in more,
           \A i \in 1 .. Len(buf) : buf[i].line # 0 => buf[i].line \in 1 .. last,
           0 \notin lines, 0 \notin more,
           Carries(buf, lines, lo, hi)
    PROVE  Carries(buf, more, lo, hi)
<1>1. \A i \in 1 .. Len(buf) : buf[i].line \in more => buf[i].line \in lines
  OBVIOUS
<1>2. ASSUME NEW n \in more, lo < n, n <= hi
      PROVE  n \in lines
  <2>1. n \in Nat /\ n \in 1 .. last
    BY <1>2
  <2> QED BY <2>1
<1> QED
  BY <1>1, <1>2 DEF Carries

-----------------------------------------------------------------------------
(* What every step leaves alone *)

Gone(g) == g \in leaving \/ g \notin running

\* What upstream has sent and what has been read of it stays, and who has gone
\* does not come back.
Onward ==
    /\ protocol' = protocol
    /\ Len(sent) <= Len(sent') /\ \A n \in 1 .. Len(sent) : sent'[n] = sent[n]
    /\ scanned <= scanned'
    /\ \A g \in Goroutines : Gone(g) => Gone(g)'
    /\ \A g \in Goroutines : g \notin running => g \notin running'
    /\ Gone("reader") => scanned' = scanned
    /\ reader.timedOut => reader'.timedOut
    /\ clientGone => clientGone'
    /\ wire # "open" => wire' = wire /\ sent' = sent

LEMMA OnwardStill ==
    ASSUME PipelineTypeOK, UNCHANGED <<protocol, sent, wire, scanned, leaving, running>>,
           reader.timedOut => reader'.timedOut, clientGone => clientGone'
    PROVE  Onward
BY DEF Onward, Gone, PipelineTypeOK

LEMMA OnwardTakes ==
    ASSUME NEW g \in Goroutines, NEW items, NEW leaves, Takes(g, items, leaves), PipelineTypeOK
    PROVE  Onward
BY DEF Takes, Onward, Gone, upstreamVars, readerVars, PipelineTypeOK

LEMMA OnwardLeaves ==
    ASSUME NEW g \in Goroutines, NEW items, Leaves(g, items), UNCHANGED readerVars, PipelineTypeOK
    PROVE  Onward
BY DEF Leaves, Onward, Gone, upstreamVars, readerVars, PipelineTypeOK

LEMMA OnwardSends ==
    ASSUME NEW g \in Goroutines, Sends(g), PipelineTypeOK
    PROVE  Onward
BY DEF Sends, Onward, Gone, upstreamVars, readerVars, PipelineTypeOK

LEMMA OnwardReturns ==
    ASSUME NEW g \in Goroutines, Returns(g), PipelineTypeOK
    PROVE  Onward
BY DEF Returns, Onward, Gone, upstreamVars, Closed, PipelineTypeOK

LEMMA StepsOnward ==
    ASSUME PipelineTypeOK, [PipelineNext]_vars
    PROVE  Onward
<1> USE GoroutineNames
<1>1. CASE UNCHANGED vars
  BY <1>1 DEF vars, Onward, Gone, PipelineTypeOK
<1>2. ASSUME NEW kind \in LineKinds, UpstreamSends(kind)
      PROVE  Onward
  <2>1. Len(sent') = Len(sent) + 1 /\ \A n \in 1 .. Len(sent) : sent'[n] = sent[n]
    BY <1>2 DEF UpstreamSends, PipelineTypeOK
  <2> QED
    BY <1>2, <2>1 DEF UpstreamSends, Onward, Gone, readerVars, PipelineTypeOK
<1>3. ASSUME NEW how \in {"ended", "broken"}, UpstreamStops(how)
      PROVE  Onward
  BY <1>3 DEF UpstreamStops, Onward, Gone, readerVars, PipelineTypeOK
<1>4. CASE ClientLeaves
  BY <1>4, OnwardStill DEF ClientLeaves, readerVars, upstreamVars
<1>5. CASE ReaderReceives
  <2>1. reader.timedOut => reader'.timedOut
    BY <1>5 DEF ReaderReceives, PipelineTypeOK
  <2> QED
    BY <1>5, <2>1, OnwardStill DEF ReaderReceives, upstreamVars
<1>6. CASE ReaderScans
  <2>1. ~Gone("reader") /\ scanned <= scanned'
    BY <1>6 DEF ReaderScans, Gone, Idle, PipelineTypeOK
  <2>2. UNCHANGED <<protocol, sent, wire, leaving, running, reader, clientGone>>
    BY <1>6 DEF ReaderScans, upstreamVars
  <2> QED
    BY <2>1, <2>2 DEF Onward, Gone, PipelineTypeOK
<1>7. CASE ReaderStops
  BY <1>7, OnwardLeaves DEF ReaderStops
<1>8. CASE ReaderAbandons
  BY <1>8, OnwardLeaves DEF ReaderAbandons
<1>9. CASE TimePasses
  <2>1. reader.timedOut => reader'.timedOut
    BY <1>9 DEF TimePasses, PipelineTypeOK
  <2> QED
    BY <1>9, <2>1, OnwardStill DEF TimePasses, upstreamVars
<1>10. CASE MonitorChecks
  <2>1. reader.timedOut => reader'.timedOut
    BY <1>10 DEF MonitorChecks, Closed, PipelineTypeOK
  <2> QED
    BY <1>10, <2>1, OnwardStill DEF MonitorChecks, Closed, upstreamVars
<1>11. CASE ParserStep
  BY <1>11, OnwardTakes, OnwardLeaves, OnwardSends, OnwardReturns
  DEF ParserStep, ParserTakes, ParserCancelled, ParserEnds
<1>12. CASE GuardStep
  BY <1>12, OnwardTakes, OnwardLeaves, OnwardSends, OnwardReturns
  DEF GuardStep, GuardTakes, GuardEnds
<1>13. CASE AdapterStep
  BY <1>13, OnwardTakes, OnwardLeaves, OnwardSends, OnwardReturns
  DEF AdapterStep, AdapterTakes, AdapterEnds
<1>14. CASE HandlerStep
  <2>1. CASE HandlerWrites
    BY <2>1, OnwardStill DEF HandlerWrites, upstreamVars, readerVars
  <2> QED
    BY <1>14, <2>1, OnwardTakes, OnwardLeaves, OnwardReturns
    DEF HandlerStep, HandlerTakes, HandlerEnds, HandlerWriteFails
<1> QED
  BY <1>1, <1>2, <1>3, <1>4, <1>5, <1>6, <1>7, <1>8, <1>9, <1>10, <1>11, <1>12, <1>13, <1>14,
     OnwardSends, OnwardReturns
  DEF PipelineNext, ReaderStep, Over

-----------------------------------------------------------------------------
(* Items are of the lines they name *)

\* What g may make without a line.
Unnumbered(g) ==
    IF g = "handler" THEN {"finish", "stop"}
    ELSE IF g = "adapter" THEN {"error", "finish", "done"} ELSE {"error"}

\* An item that g holds or has sent, when the first n lines of s were scanned.
Faithful(g, item, s, n) ==
    IF item.line = 0 THEN item.kind \in Unnumbered(g)
    ELSE /\ item.line \in 1 .. n
         /\ item.kind = IF g = "reader" THEN s[item.line] ELSE Parsed(s[item.line])
         /\ g = "handler" => item.kind = "data"

Sound(g, buf, s, n) == \A i \in 1 .. Len(buf) : Faithful(g, buf[i], s, n)

AllFaithful ==
    /\ \A g \in Goroutines : Sound(g, hold[g], sent, scanned)
    /\ \A g \in Senders : Sound(g, channel[g], sent, scanned)
    /\ Sound("handler", written, sent, scanned)

LEMMA SoundTail ==
    ASSUME NEW g, NEW s, NEW n, NEW buf \in Seq(Items), buf # <<>>, Sound(g, buf, s, n)
    PROVE  Faithful(g, Head(buf), s, n) /\ Sound(g, Tail(buf), s, n)
<1>1. /\ Head(buf) = buf[1] /\ 1 \in 1 .. Len(buf)
      /\ \A i \in 1 .. Len(Tail(buf)) : Tail(buf)[i] = buf[i + 1] /\ i + 1 \in 1 .. Len(buf)
  OBVIOUS
<1> QED BY <1>1 DEF Sound

LEMMA SoundAppend ==
    ASSUME NEW g, NEW s, NEW n, NEW buf \in Seq(Items), NEW item \in Items,
           Sound(g, buf, s, n), Faithful(g, item, s, n)
    PROVE  Sound(g, Append(buf, item), s, n)
<1>1. /\ Append(buf, item)[Len(buf) + 1] = item /\ Len(Append(buf, item)) = Len(buf) + 1
      /\ \A i \in 1 .. Len(buf) : Append(buf, item)[i] = buf[i]
      /\ \A i \in 1 .. Len(buf) + 1 : i \in 1 .. Len(buf) \/ i = Len(buf) + 1
  OBVIOUS
<1> QED BY <1>1 DEF Sound

LEMMA SoundFew ==
    ASSUME NEW g, NEW s, NEW n, NEW item \in Items, Faithful(g, item, s, n)
    PROVE  Sound(g, <<>>, s, n) /\ Sound(g, <<item>>, s, n)
BY DEF Sound

\* They remain so when more has been sent and scanned.
LEMMA SoundOnward ==
    ASSUME PipelineTypeOK, PipelineTypeOK', Onward, NEW g, NEW buf \in Seq(Items),
           Sound(g, buf, sent, scanned)
    PROVE  Sound(g, buf, sent', scanned')
<1>1. /\ scanned \in Nat /\ Len(sent) \in Nat /\ scanned <= Len(sent)
      /\ received \in Nat /\ scanned' \in Nat
  BY DEF PipelineTypeOK
<1>2. scanned <= scanned' /\ \A n \in 1 .. Len(sent) : sent'[n] = sent[n]
  BY DEF Onward
<1>3. \A n \in 1 .. scanned : sent'[n] = sent[n]
  BY <1>1, <1>2
<1> SUFFICES ASSUME NEW i \in 1 .. Len(buf)
             PROVE  Faithful(g, buf[i], sent', scanned')
  BY DEF Sound
<1>4. Faithful(g, buf[i], sent, scanned)
  BY DEF Sound
<1>5. CASE buf[i].line = 0
  BY <1>4, <1>5 DEF Faithful
<1>6. CASE buf[i].line # 0
  <2>1. buf[i].line \in 1 .. scanned /\ sent'[buf[i].line] = sent[buf[i].line]
    BY <1>3, <1>4, <1>6 DEF Faithful
  <2>2. buf[i].line \in 1 .. scanned'
    BY <2>1, <1>1, <1>2
  <2> QED BY <1>4, <1>6, <2>1, <2>2 DEF Faithful
<1> QED BY <1>5, <1>6

LEMMA FaithfulTakes ==
    ASSUME PipelineTypeOK, AllFaithful, NEW g \in Members(protocol) \ {"reader"},
           Ready(g), NEW items \in Seq(Items), NEW leaves, Takes(g, items, leaves),
           Sound(g, items, sent, scanned)
    PROVE  AllFaithful'
<1>1. /\ From(g) \in Senders /\ g \in Goroutines
      /\ channel[From(g)] \in Seq(Items) /\ channel[From(g)] # <<>>
  BY FromAnother, Protocol, NextItemType, GoroutineNames DEF Members
<1>2. UNCHANGED <<sent, scanned, written>>
  BY DEF Takes, upstreamVars, readerVars
<1>3. \A h \in Goroutines : Sound(h, hold'[h], sent, scanned)
  BY <1>1 DEF Takes, AllFaithful, PipelineTypeOK
<1>4. Sound(From(g), Tail(channel[From(g)]), sent, scanned)
  BY <1>1, SoundTail DEF AllFaithful
<1>5. \A h \in Senders : Sound(h, channel'[h], sent, scanned)
  BY <1>1, <1>4 DEF Takes, AllFaithful, PipelineTypeOK
<1> QED BY <1>2, <1>3, <1>5 DEF AllFaithful

LEMMA FaithfulLeaves ==
    ASSUME PipelineTypeOK, AllFaithful, NEW g \in Goroutines,
           NEW items \in Seq(Items), Leaves(g, items), UNCHANGED readerVars,
           Sound(g, items, sent, scanned)
    PROVE  AllFaithful'
<1>1. UNCHANGED <<sent, scanned, written, channel>>
  BY DEF Leaves, upstreamVars, readerVars
<1>2. \A h \in Goroutines : Sound(h, hold'[h], sent, scanned)
  BY DEF Leaves, AllFaithful, PipelineTypeOK
<1> QED BY <1>1, <1>2 DEF AllFaithful

LEMMA FaithfulSends ==
    ASSUME PipelineTypeOK, AllFaithful, NEW g \in Senders, Sends(g)
    PROVE  AllFaithful'
<1>1. /\ hold[g] \in Seq(Items) /\ hold[g] # <<>> /\ channel[g] \in Seq(Items)
      /\ g \in Goroutines
  BY GoroutineNames DEF Sends, PipelineTypeOK
<1>2. /\ Faithful(g, Head(hold[g]), sent, scanned) /\ Head(hold[g]) \in Items
      /\ Sound(g, Tail(hold[g]), sent, scanned)
  BY <1>1, SoundTail DEF AllFaithful
<1>3. Sound(g, Append(channel[g], Head(hold[g])), sent, scanned)
  BY <1>1, <1>2, SoundAppend DEF AllFaithful
<1>4. UNCHANGED <<sent, scanned, written>>
  BY DEF Sends, upstreamVars, readerVars
<1>5. \A h \in Goroutines : Sound(h, hold'[h], sent, scanned)
  BY <1>1, <1>2 DEF Sends, AllFaithful, PipelineTypeOK
<1>6. \A h \in Senders : Sound(h, channel'[h], sent, scanned)
  BY <1>1, <1>3 DEF Sends, AllFaithful, PipelineTypeOK
<1> QED BY <1>4, <1>5, <1>6 DEF AllFaithful

\* The next item is faithful to what its sender may send.
LEMMA NextItemFaithful ==
    ASSUME PipelineTypeOK, AllFaithful, NEW g \in Members(protocol) \ {"reader"}, Ready(g)
    PROVE  Faithful(From(g), NextItem(g), sent, scanned)
<1>1. /\ From(g) \in Senders
      /\ channel[From(g)] \in Seq(Items) /\ channel[From(g)] # <<>>
  BY FromAnother, Protocol, NextItemType
<1> QED BY <1>1, SoundTail DEF AllFaithful, NextItem

LEMMA MadeUpFaithful ==
    ASSUME NEW s, NEW n
    PROVE  /\ \A g \in {"reader", "parser", "guard", "adapter"} :
                 Faithful(g, Item("error"), s, n)
           /\ Faithful("adapter", Item("finish"), s, n) /\ Faithful("adapter", Item("done"), s, n)
           /\ Faithful("handler", Item("stop"), s, n)
BY DEF Faithful, Unnumbered, Item

LEMMA SoundPair ==
    ASSUME NEW g, NEW s, NEW n, NEW item \in Items, NEW other \in Items,
           Faithful(g, item, s, n), Faithful(g, other, s, n)
    PROVE  Sound(g, <<item, other>>, s, n)
BY DEF Sound

LEMMA FaithfulParser ==
    ASSUME PipelineTypeOK, AllFaithful, ParserTakes \/ ParserCancelled \/ ParserEnds
    PROVE  AllFaithful'
<1> USE GoroutineNames
<1>1. CASE ParserTakes
  <2> DEFINE line == NextItem("parser")
             item == [line EXCEPT !.kind = Parsed(line.kind)]
             last == line.kind = "error" \/ (protocol = "chat" /\ line.kind # "data")
  <2>1. "parser" \in Members(protocol) \ {"reader"} /\ Ready("parser") /\ From("parser") = "reader"
    BY <1>1 DEF ParserTakes, Members, From
  <2>2. line \in Items /\ item \in Items
    BY <2>1, NextItemType, ParsedType
  <2>3. Faithful("reader", line, sent, scanned)
    BY <2>1, NextItemFaithful
  <2>4. Faithful("parser", item, sent, scanned)
    <3>1. item.line = line.line /\ item.kind = Parsed(line.kind)
      BY <2>2 DEF Items
    <3>2. line.line = 0 => item.kind = "error"
      BY <2>3, <3>1 DEF Faithful, Unnumbered, Parsed
    <3> HIDE DEF item, line
    <3> QED BY <2>3, <3>1, <3>2 DEF Faithful, Unnumbered
  <2>5. Takes("parser", <<item>>, last)
    BY <1>1 DEF ParserTakes
  <2>6. <<item>> \in Seq(Items)
    BY <2>2, SequencesOfItems
  <2>7. Sound("parser", <<item>>, sent, scanned)
    BY <2>2, <2>4, SoundFew
  <2> QED BY <2>1, <2>5, <2>6, <2>7, FaithfulTakes
<1>2. ASSUME NEW items \in {<<>>, <<Item("error")>>}, Leaves("parser", items), UNCHANGED readerVars
      PROVE  AllFaithful'
  BY <1>2, FaithfulLeaves, SoundFew, MadeUpFaithful, ItemTypes, SequencesOfItems
<1> QED BY <1>1, <1>2 DEF ParserCancelled, ParserEnds

LEMMA FaithfulGuard ==
    ASSUME PipelineTypeOK, AllFaithful, GuardTakes \/ GuardEnds
    PROVE  AllFaithful'
<1> USE GoroutineNames
<1>1. CASE GuardTakes
  <2>1. "guard" \in Members(protocol) \ {"reader"} /\ Ready("guard") /\ From("guard") = "parser"
    BY <1>1 DEF GuardTakes, Ready, Idle, PipelineTypeOK, From
  <2>2. NextItem("guard") \in Items /\ Faithful("parser", NextItem("guard"), sent, scanned)
    BY <2>1, NextItemType, NextItemFaithful
  <2>3. Faithful("guard", NextItem("guard"), sent, scanned)
    BY <2>2 DEF Faithful, Unnumbered
  <2>4. Takes("guard", <<NextItem("guard")>>, FALSE)
    BY <1>1 DEF GuardTakes
  <2> QED BY <2>1, <2>2, <2>3, <2>4, FaithfulTakes, SoundFew, SequencesOfItems
<1>2. ASSUME NEW items \in {<<>>, <<Item("error")>>}, Leaves("guard", items), UNCHANGED readerVars
      PROVE  AllFaithful'
  BY <1>2, FaithfulLeaves, SoundFew, MadeUpFaithful, ItemTypes, SequencesOfItems
<1> QED BY <1>1, <1>2 DEF GuardEnds

LEMMA FaithfulAdapter ==
    ASSUME PipelineTypeOK, AllFaithful, AdapterTakes \/ AdapterEnds
    PROVE  AllFaithful'
<1> USE GoroutineNames
<1>1. CASE AdapterTakes
  <2> DEFINE chunk == NextItem("adapter")
             items == IF chunk.kind = "done" THEN <<Item("finish"), Item("done")>> ELSE <<chunk>>
  <2>1. "adapter" \in Members(protocol) \ {"reader"} /\ Ready("adapter") /\ From("adapter") = "guard"
    BY <1>1 DEF AdapterTakes, Ready, Idle, PipelineTypeOK, From
  <2>2. chunk \in Items /\ Faithful("guard", chunk, sent, scanned)
    BY <2>1, NextItemType, NextItemFaithful
  <2>3. Faithful("adapter", chunk, sent, scanned)
    BY <2>2 DEF Faithful, Unnumbered
  <2>4. /\ <<Item("finish"), Item("done")>> \in Seq(Items)
        /\ Sound("adapter", <<Item("finish"), Item("done")>>, sent, scanned)
    BY MadeUpFaithful, ItemTypes, SequencesOfItems, SoundPair
  <2>5. items \in Seq(Items) /\ Sound("adapter", items, sent, scanned)
    BY <2>2, <2>3, <2>4, SoundFew, SequencesOfItems
  <2>6. Takes("adapter", items, chunk.kind = "error")
    BY <1>1 DEF AdapterTakes
  <2> QED BY <2>1, <2>5, <2>6, FaithfulTakes
<1>2. CASE AdapterEnds
  BY <1>2, FaithfulLeaves, SoundFew, MadeUpFaithful, ItemTypes, SequencesOfItems DEF AdapterEnds
<1> QED BY <1>1, <1>2

LEMMA FaithfulHandler ==
    ASSUME PipelineTypeOK, AllFaithful, HandlerStep
    PROVE  AllFaithful'
<1> USE GoroutineNames
<1>1. CASE HandlerTakes
  <2> DEFINE chunk == NextItem("handler")
             items == IF chunk.kind \in {"error", "done"} THEN <<>> ELSE <<chunk>>
  <2>1. /\ "handler" \in Members(protocol) \ {"reader"} /\ Ready("handler")
        /\ From("handler") \in {"parser", "adapter"}
    BY <1>1 DEF HandlerTakes, Members, From
  <2>2. chunk \in Items /\ Faithful(From("handler"), chunk, sent, scanned)
    BY <2>1, NextItemType, NextItemFaithful
  <2>3. chunk.kind \notin {"error", "done"} => Faithful("handler", chunk, sent, scanned)
    BY <2>1, <2>2 DEF Faithful, Unnumbered, Parsed
  <2>4. items \in Seq(Items) /\ Sound("handler", items, sent, scanned)
    BY <2>2, <2>3, SoundFew, SequencesOfItems, MadeUpFaithful, ItemTypes
  <2>5. Takes("handler", items, chunk.kind = "error")
    BY <1>1 DEF HandlerTakes
  <2> QED BY <2>1, <2>4, <2>5, FaithfulTakes
<1>2. CASE HandlerEnds
  BY <1>2, FaithfulLeaves, SoundFew, MadeUpFaithful, ItemTypes, SequencesOfItems DEF HandlerEnds
<1>3. CASE HandlerWrites
  <2>1. /\ hold["handler"] \in Seq(Items) /\ hold["handler"] # <<>> /\ written \in Seq(Items)
        /\ Head(hold["handler"]) \in Items
    BY <1>3 DEF HandlerWrites, PipelineTypeOK
  <2>2. /\ Sound("handler", Tail(hold["handler"]), sent, scanned)
        /\ Sound("handler", Append(written, Head(hold["handler"])), sent, scanned)
    BY <2>1, SoundTail, SoundAppend DEF AllFaithful
  <2>3. \A h \in Goroutines : Sound(h, hold'[h], sent, scanned)
    BY <1>3, <2>2 DEF HandlerWrites, AllFaithful, PipelineTypeOK
  <2>4. UNCHANGED <<sent, scanned, channel>>
    BY <1>3 DEF HandlerWrites, upstreamVars, readerVars
  <2>5. written' = Append(written, Head(hold["handler"]))
    BY <1>3 DEF HandlerWrites
  <2> QED BY <2>2, <2>3, <2>4, <2>5 DEF AllFaithful
<1>4. CASE HandlerWriteFails
  BY <1>4, FaithfulLeaves, SoundFew, MadeUpFaithful, ItemTypes, SequencesOfItems
  DEF HandlerWriteFails
<1>5. CASE Returns("handler")
  BY <1>5 DEF Returns, AllFaithful, upstreamVars
<1> QED BY <1>1, <1>2, <1>3, <1>4, <1>5 DEF HandlerStep

LEMMA FaithfulReader ==
    ASSUME PipelineTypeOK, PipelineTypeOK', Onward, AllFaithful,
           ReaderScans \/ ReaderStops \/ ReaderAbandons
    PROVE  AllFaithful'
<1> USE GoroutineNames
<1>1. CASE ReaderScans
  <2> DEFINE item == [kind |-> sent[scanned + 1], line |-> scanned + 1]
  <2>1. /\ scanned \in Nat /\ received \in Nat /\ scanned < received /\ received <= Len(sent)
        /\ sent \in Seq(LineKinds) /\ Len(sent) \in Nat
    BY <1>1 DEF ReaderScans, PipelineTypeOK
  <2>2. scanned + 1 \in 1 .. Len(sent) /\ scanned + 1 # 0 /\ scanned + 1 \in 1 .. scanned + 1
    BY <2>1
  <2>3. item \in Items
    BY <2>1, <2>2 DEF Items, ItemKinds
  <2>4. Faithful("reader", item, sent, scanned + 1)
    BY <2>2 DEF Faithful
  <2>5. UNCHANGED <<sent, channel, written>> /\ scanned' = scanned + 1
    BY <1>1 DEF ReaderScans, upstreamVars
  <2>6. \A h \in Senders : Sound(h, channel[h], sent', scanned')
    BY SoundOnward DEF AllFaithful, PipelineTypeOK
  <2>7. Sound("handler", written, sent', scanned')
    BY SoundOnward DEF AllFaithful, PipelineTypeOK
  <2>8. \A h \in Goroutines : Sound(h, hold[h], sent', scanned')
    BY SoundOnward DEF AllFaithful, PipelineTypeOK
  <2>9. Sound("reader", <<item>>, sent', scanned')
    BY <2>3, <2>4, <2>5, SoundFew
  <2>10. \A h \in Goroutines : Sound(h, hold'[h], sent', scanned')
    BY <1>1, <2>8, <2>9 DEF ReaderScans, PipelineTypeOK
  <2> QED BY <2>5, <2>6, <2>7, <2>10 DEF AllFaithful
<1>2. ASSUME NEW items \in {<<>>, <<Item("error")>>}, Leaves("reader", items), UNCHANGED readerVars
      PROVE  AllFaithful'
  BY <1>2, FaithfulLeaves, SoundFew, MadeUpFaithful, ItemTypes, SequencesOfItems
<1> QED BY <1>1, <1>2 DEF ReaderStops, ReaderAbandons

LEMMA FaithfulStep ==
    ASSUME PipelineTypeOK, PipelineTypeOK', AllFaithful, [PipelineNext]_vars
    PROVE  AllFaithful'
<1> USE GoroutineNames
<1>0. Onward
  BY StepsOnward
<1>1. ASSUME UNCHANGED <<channel, hold, written>>
      PROVE  AllFaithful'
  <2>1. \A h \in Senders : Sound(h, channel[h], sent', scanned')
    BY <1>0, SoundOnward DEF AllFaithful, PipelineTypeOK
  <2>2. Sound("handler", written, sent', scanned')
    BY <1>0, SoundOnward DEF AllFaithful, PipelineTypeOK
  <2>3. \A h \in Goroutines : Sound(h, hold[h], sent', scanned')
    BY <1>0, SoundOnward DEF AllFaithful, PipelineTypeOK
  <2> QED BY <1>1, <2>1, <2>2, <2>3 DEF AllFaithful
<1>2. CASE UNCHANGED vars
  BY <1>1, <1>2 DEF vars
<1>3. CASE (\E kind \in LineKinds : UpstreamSends(kind))
           \/ (\E how \in {"ended", "broken"} : UpstreamStops(how)) \/ ClientLeaves
  BY <1>1, <1>3 DEF UpstreamSends, UpstreamStops, ClientLeaves
<1>4. CASE ReaderReceives \/ TimePasses \/ MonitorChecks
  BY <1>1, <1>4 DEF ReaderReceives, TimePasses, MonitorChecks
<1>5. ASSUME NEW g \in Goroutines, Returns(g)
      PROVE  AllFaithful'
  BY <1>1, <1>5 DEF Returns
<1> QED
  BY <1>0, <1>2, <1>3, <1>4, <1>5, FaithfulReader, FaithfulParser, FaithfulGuard, FaithfulAdapter,
     FaithfulHandler, FaithfulSends
  DEF PipelineNext, ReaderStep, ParserStep, GuardStep, AdapterStep, Over

-----------------------------------------------------------------------------
(* How far each goroutine is *)

(***************************************************************************)
(* took[g] is the last line that g has taken and counts, gave[g] the last  *)
(* one that it has sent or written, or there was none.  The reader and the *)
(* parser count every line, the others the content.                        *)
(***************************************************************************)
Lines(g, s) == IF g \in {"reader", "parser"} THEN 1 .. Len(s) ELSE {i \in 1 .. Len(s) : s[i] = "data"}

Linked(buf, lines, lo, hi) == lo <= hi /\ Carries(buf, lines, lo, hi)

\* g has dropped what it held, and nobody will miss it.
Abandoned(g) ==
    /\ Gone(g) /\ hold[g] = <<>>
    /\ g = "handler" \/ (g = "reader" /\ "parser" \notin running)

Flow(took, gave) ==
    /\ took["reader"] = scanned
    /\ \A g \in Members(protocol) :
          gave[g] <= took[g] /\ (Carries(hold[g], Lines(g, sent), gave[g], took[g]) \/ Abandoned(g))
    /\ \A g \in Members(protocol) \ {"reader"} :
          Linked(channel[From(g)], Lines(From(g), sent), took[g], gave[From(g)])
    /\ Carries(written, Lines("handler", sent), 0, gave["handler"])

Cursors == [Goroutines -> Nat]

LEMMA FromKept == protocol' = protocol => \A g : From(g)' = From(g)
BY DEF From

\* Each channel has one receiver.
LEMMA OneReceiver ==
    ASSUME protocol \in AllProtocols, NEW g \in Members(protocol) \ {"reader"},
           NEW h \in Members(protocol) \ {"reader"}, g # h
    PROVE  From(g) # From(h)
BY GoroutineNames DEF AllProtocols, Members, From

LEMMA LinesType ==
    ASSUME NEW g, NEW s, Len(s) \in Nat
    PROVE  Lines(g, s) \in SUBSET Nat /\ \A n \in Lines(g, s) : n \in 1 .. Len(s)
BY DEF Lines

LEMMA FewerLines ==
    ASSUME protocol \in AllProtocols, NEW g \in Members(protocol) \ {"reader"}
    PROVE  Lines(g, sent) \subseteq Lines(From(g), sent)
BY GoroutineNames DEF AllProtocols, Members, From, Lines

\* g goes on with the line that it takes, or that line does not count for it.
Passes(g, next, items) ==
    \/ \E item \in Items : items = <<item>> /\ item.line = next.line
    \/ /\ next.line \notin Lines(g, sent)
       /\ \A i \in 1 .. Len(items) : items[i].line \notin Lines(g, sent)

LEMMA FlowTakes ==
    ASSUME PipelineTypeOK, NEW took \in Cursors, NEW gave \in Cursors, Flow(took, gave),
           NEW g \in Members(protocol) \ {"reader"}, Ready(g),
           NEW items \in Seq(Items), NEW leaves, Takes(g, items, leaves),
           Passes(g, NextItem(g), items),
           NEW next, next = Behind(NextItem(g), Lines(From(g), sent), took[g])
    PROVE  /\ next \in Nat /\ took[g] <= next
           /\ Flow([took EXCEPT ![g] = next], gave)'
<1> USE GoroutineNames
<1> DEFINE took2 == [took EXCEPT ![g] = next]
<1>1. /\ From(g) \in Senders /\ From(g) \in Members(protocol) /\ protocol \in AllProtocols
      /\ g \in Goroutines /\ Members(protocol) \subseteq Goroutines
      /\ channel[From(g)] \in Seq(Items) /\ channel[From(g)] # <<>>
      /\ NextItem(g) \in Items /\ NextItem(g) = Head(channel[From(g)])
  BY FromAnother, Protocol, NextItemType DEF Members, NextItem
<1>2. /\ Lines(g, sent) \in SUBSET Nat /\ Lines(From(g), sent) \in SUBSET Nat
      /\ Lines(g, sent) \in SUBSET Lines(From(g), sent)
  <2>1. Len(sent) \in Nat
    BY DEF PipelineTypeOK
  <2> QED BY <1>1, <2>1, LinesType, FewerLines
<1>3. /\ took[g] \in Nat /\ gave[g] \in Nat /\ gave[From(g)] \in Nat
      /\ gave[g] <= took[g] /\ took[g] <= gave[From(g)]
      /\ Carries(channel[From(g)], Lines(From(g), sent), took[g], gave[From(g)])
  BY <1>1 DEF Flow, Linked, Cursors
<1>4. /\ next \in Nat /\ took[g] <= next /\ next <= gave[From(g)]
      /\ Carries(<<NextItem(g)>>, Lines(From(g), sent), took[g], next)
      /\ Carries(Tail(channel[From(g)]), Lines(From(g), sent), next, gave[From(g)])
  BY <1>1, <1>2, <1>3, CarriesTail
<1>5. hold[g] = <<>> /\ ~Abandoned(g)
  BY DEF Ready, Idle, Abandoned, Gone
<1>6. Carries(<<>>, Lines(g, sent), gave[g], took[g])
  BY <1>1, <1>5 DEF Flow
<1>7. Carries(<<NextItem(g)>>, Lines(g, sent), took[g], next)
  <2>1. <<NextItem(g)>> \in Seq(Items)
    BY <1>1
  <2> QED BY <2>1, <1>2, <1>3, <1>4, CarriesFewer
<1>8. Carries(items, Lines(g, sent), took[g], next)
  <2>1. CASE \E item \in Items : items = <<item>> /\ item.line = NextItem(g).line
    BY <2>1, <1>7 DEF Carries
  <2>2. CASE /\ NextItem(g).line \notin Lines(g, sent)
             /\ \A i \in 1 .. Len(items) : items[i].line \notin Lines(g, sent)
    <3>1. \A n \in Lines(g, sent) : ~(took[g] < n /\ n <= next)
      BY <2>2, <1>7 DEF Carries
    <3> QED BY <2>2, <3>1, <1>2, <1>3, <1>4, CarriesNone
  <2> QED BY <2>1, <2>2 DEF Passes
<1>9. Carries(items, Lines(g, sent), gave[g], next)
  BY <1>2, <1>3, <1>4, <1>6, <1>8, CarriesFrom
<1>10. /\ UNCHANGED <<protocol, sent, scanned, running, written>>
       /\ hold' = [hold EXCEPT ![g] = items]
       /\ channel' = [channel EXCEPT ![From(g)] = Tail(@)]
       /\ leaving \subseteq leaving'
  BY DEF Takes, upstreamVars, readerVars
<1>11. /\ took2[g] = next /\ \A h \in Goroutines \ {g} : took2[h] = took[h]
       /\ hold'[g] = items /\ \A h \in Goroutines \ {g} : hold'[h] = hold[h]
       /\ channel'[From(g)] = Tail(channel[From(g)])
       /\ \A h \in Senders \ {From(g)} : channel'[h] = channel[h]
  BY <1>1, <1>10 DEF Cursors, PipelineTypeOK
<1>12. \A h \in Goroutines \ {g} : Abandoned(h) => Abandoned(h)'
  BY <1>10, <1>11 DEF Abandoned, Gone
<1>13. \A h : From(h)' = From(h)
  BY <1>10, FromKept
<1> HIDE DEF took2
<1>14. took2["reader"] = scanned'
  BY <1>10, <1>11 DEF Flow
<1>15. ASSUME NEW h \in Members(protocol)'
       PROVE  gave[h] <= took2[h] /\ (Carries(hold'[h], Lines(h, sent'), gave[h], took2[h]) \/ Abandoned(h)')
  <2>1. h \in Members(protocol) /\ h \in Goroutines
    BY <1>1, <1>10
  <2>2. CASE h = g
    BY <2>2, <1>3, <1>4, <1>9, <1>10, <1>11
  <2>3. CASE h # g
    BY <2>1, <2>3, <1>10, <1>11, <1>12 DEF Flow
  <2> QED BY <2>2, <2>3
<1>16. ASSUME NEW h \in (Members(protocol) \ {"reader"})'
       PROVE  Linked(channel'[From(h)'], Lines(From(h)', sent'), took2[h], gave[From(h)'])
  <2>1. h \in Members(protocol) \ {"reader"} /\ h \in Goroutines /\ From(h) \in Senders
    BY <1>1, <1>10, FromAnother
  <2>2. CASE h = g
    BY <2>2, <1>4, <1>10, <1>11, <1>13 DEF Linked
  <2>3. CASE h # g
    <3>1. From(h) # From(g)
      BY <2>1, <2>3, <1>1, OneReceiver
    <3>2. channel'[From(h)'] = channel[From(h)] /\ took2[h] = took[h]
      BY <2>1, <2>3, <3>1, <1>11, <1>13
    <3> QED BY <2>1, <3>2, <1>10, <1>13 DEF Flow
  <2> QED BY <2>2, <2>3
<1>17. Carries(written', Lines("handler", sent'), 0, gave["handler"])
  BY <1>10 DEF Flow
<1>18. Flow(took2, gave)'
  BY <1>14, <1>15, <1>16, <1>17 DEF Flow
<1> QED BY <1>4, <1>18 DEF took2

LEMMA FlowSends ==
    ASSUME PipelineTypeOK, NEW took \in Cursors, NEW gave \in Cursors, Flow(took, gave),
           NEW g \in Senders, Sends(g),
           NEW next, next = Behind(Head(hold[g]), Lines(g, sent), gave[g])
    PROVE  /\ next \in Nat /\ gave[g] <= next
           /\ Flow(took, [gave EXCEPT ![g] = next])'
<1> USE GoroutineNames
<1> DEFINE gave2 == [gave EXCEPT ![g] = next]
<1>1. /\ g \in Members(protocol) /\ g \in Goroutines /\ protocol \in AllProtocols
      /\ Members(protocol) \subseteq Goroutines
      /\ hold[g] \in Seq(Items) /\ hold[g] # <<>> /\ channel[g] \in Seq(Items)
      /\ Head(hold[g]) \in Items
  <2>1. g \in running /\ running \subseteq Members(protocol) /\ hold[g] # <<>>
    BY DEF Sends, PipelineTypeOK
  <2>2. Members(protocol) \subseteq Goroutines
    BY DEF Members
  <2>3. hold[g] \in Seq(Items) /\ channel[g] \in Seq(Items)
    BY <2>1, <2>2 DEF PipelineTypeOK
  <2> QED BY <2>1, <2>2, <2>3, Protocol
<1>2. Lines(g, sent) \in SUBSET Nat
  <2>1. Len(sent) \in Nat
    BY DEF PipelineTypeOK
  <2> QED BY <2>1, LinesType
<1>3. /\ took[g] \in Nat /\ gave[g] \in Nat /\ gave[g] <= took[g]
      /\ Carries(hold[g], Lines(g, sent), gave[g], took[g])
  BY <1>1 DEF Flow, Cursors, Abandoned
<1>4. /\ next \in Nat /\ gave[g] <= next /\ next <= took[g]
      /\ Carries(<<Head(hold[g])>>, Lines(g, sent), gave[g], next)
      /\ Carries(Tail(hold[g]), Lines(g, sent), next, took[g])
  BY <1>1, <1>2, <1>3, CarriesTail
<1>5. /\ UNCHANGED <<protocol, sent, scanned, running, leaving, written>>
      /\ hold' = [hold EXCEPT ![g] = Tail(@)]
      /\ channel' = [channel EXCEPT ![g] = Append(@, Head(hold[g]))]
  BY DEF Sends, upstreamVars, readerVars
<1>6. /\ gave2[g] = next /\ \A h \in Goroutines \ {g} : gave2[h] = gave[h]
      /\ hold'[g] = Tail(hold[g]) /\ \A h \in Goroutines \ {g} : hold'[h] = hold[h]
      /\ channel'[g] = Append(channel[g], Head(hold[g]))
      /\ \A h \in Senders \ {g} : channel'[h] = channel[h]
  BY <1>1, <1>5 DEF Cursors, PipelineTypeOK
<1>7. \A h \in Goroutines \ {g} : Abandoned(h) => Abandoned(h)'
  BY <1>5, <1>6 DEF Abandoned, Gone
<1>8. \A h : From(h)' = From(h)
  BY <1>5, FromKept
<1> HIDE DEF gave2
<1>9. took["reader"] = scanned'
  BY <1>5 DEF Flow
<1>10. ASSUME NEW h \in Members(protocol)'
       PROVE  gave2[h] <= took[h] /\ (Carries(hold'[h], Lines(h, sent'), gave2[h], took[h]) \/ Abandoned(h)')
  <2>1. h \in Members(protocol) /\ h \in Goroutines
    BY <1>1, <1>5
  <2>2. CASE h = g
    BY <2>2, <1>4, <1>5, <1>6
  <2>3. CASE h # g
    BY <2>1, <2>3, <1>5, <1>6, <1>7 DEF Flow
  <2> QED BY <2>2, <2>3
<1>11. ASSUME NEW h \in (Members(protocol) \ {"reader"})'
       PROVE  Linked(channel'[From(h)'], Lines(From(h)', sent'), took[h], gave2[From(h)'])
  <2>1. h \in Members(protocol) \ {"reader"} /\ h \in Goroutines /\ From(h) \in Senders
    BY <1>1, <1>5, FromAnother
  <2>2. CASE From(h) = g
    <3>1. took[h] \in Nat /\ took[h] <= gave[g] /\ Carries(channel[g], Lines(g, sent), took[h], gave[g])
      BY <2>1, <2>2 DEF Flow, Linked, Cursors
    <3>2. Carries(Append(channel[g], Head(hold[g])), Lines(g, sent), took[h], next)
      BY <3>1, <1>1, <1>2, <1>3, <1>4, CarriesAppend
    <3>3. took[h] <= next
      BY <3>1, <1>3, <1>4
    <3> QED BY <2>2, <3>2, <3>3, <1>5, <1>6, <1>8 DEF Linked
  <2>3. CASE From(h) # g
    <3>1. channel'[From(h)'] = channel[From(h)] /\ gave2[From(h)'] = gave[From(h)]
      BY <2>1, <2>3, <1>6, <1>8
    <3> QED BY <2>1, <3>1, <1>5, <1>8 DEF Flow
  <2> QED BY <2>2, <2>3
<1>12. Carries(written', Lines("handler", sent'), 0, gave2["handler"])
  BY <1>5, <1>6 DEF Flow
<1>13. Flow(took, gave2)'
  BY <1>9, <1>10, <1>11, <1>12 DEF Flow
<1> QED BY <1>4, <1>13 DEF gave2

LEMMA FlowWrites ==
    ASSUME PipelineTypeOK, NEW took \in Cursors, NEW gave \in Cursors, Flow(took, gave),
           HandlerWrites,
           NEW next, next = Behind(Head(hold["handler"]), Lines("handler", sent), gave["handler"])
    PROVE  /\ next \in Nat /\ gave["handler"] <= next
           /\ Flow(took, [gave EXCEPT !["handler"] = next])'
<1> USE GoroutineNames
<1> DEFINE gave2 == [gave EXCEPT !["handler"] = next]
           g == "handler"
<1>1. /\ g \in Members(protocol) /\ g \in Goroutines /\ protocol \in AllProtocols
      /\ Members(protocol) \subseteq Goroutines
      /\ hold[g] \in Seq(Items) /\ hold[g] # <<>> /\ written \in Seq(Items)
      /\ Head(hold[g]) \in Items
  BY Protocol DEF HandlerWrites, PipelineTypeOK, Members
<1>2. Lines(g, sent) \in SUBSET Nat
  <2>1. Len(sent) \in Nat
    BY DEF PipelineTypeOK
  <2> QED BY <2>1, LinesType
<1>3. /\ took[g] \in Nat /\ gave[g] \in Nat /\ gave[g] <= took[g]
      /\ Carries(hold[g], Lines(g, sent), gave[g], took[g])
      /\ Carries(written, Lines(g, sent), 0, gave[g])
  BY <1>1 DEF Flow, Cursors, Abandoned
<1>4. /\ next \in Nat /\ gave[g] <= next /\ next <= took[g]
      /\ Carries(<<Head(hold[g])>>, Lines(g, sent), gave[g], next)
      /\ Carries(Tail(hold[g]), Lines(g, sent), next, took[g])
  BY <1>1, <1>2, <1>3, CarriesTail
<1>5. /\ UNCHANGED <<protocol, sent, scanned, running, leaving, channel>>
      /\ hold' = [hold EXCEPT !["handler"] = Tail(@)]
      /\ written' = Append(written, Head(hold["handler"]))
  BY DEF HandlerWrites, upstreamVars, readerVars
<1>6. /\ gave2[g] = next /\ \A h \in Goroutines \ {g} : gave2[h] = gave[h]
      /\ hold'[g] = Tail(hold[g]) /\ \A h \in Goroutines \ {g} : hold'[h] = hold[h]
  BY <1>1, <1>5 DEF Cursors, PipelineTypeOK
<1>7. \A h \in Goroutines \ {g} : Abandoned(h) => Abandoned(h)'
  BY <1>5, <1>6 DEF Abandoned, Gone
<1>8. \A h : From(h)' = From(h)
  BY <1>5, FromKept
<1> HIDE DEF gave2
<1>9. took["reader"] = scanned'
  BY <1>5 DEF Flow
<1>10. ASSUME NEW h \in Members(protocol)'
       PROVE  gave2[h] <= took[h] /\ (Carries(hold'[h], Lines(h, sent'), gave2[h], took[h]) \/ Abandoned(h)')
  <2>1. h \in Members(protocol) /\ h \in Goroutines
    BY <1>1, <1>5
  <2>2. CASE h = g
    BY <2>2, <1>4, <1>5, <1>6
  <2>3. CASE h # g
    BY <2>1, <2>3, <1>5, <1>6, <1>7 DEF Flow
  <2> QED BY <2>2, <2>3
<1>11. ASSUME NEW h \in (Members(protocol) \ {"reader"})'
       PROVE  Linked(channel'[From(h)'], Lines(From(h)', sent'), took[h], gave2[From(h)'])
  <2>1. h \in Members(protocol) \ {"reader"} /\ From(h) \in Senders /\ From(h) # g
    BY <1>1, <1>5, FromAnother
  <2> QED BY <2>1, <1>5, <1>6, <1>8 DEF Flow
<1>12. Carries(written', Lines("handler", sent'), 0, gave2["handler"])
  <2>1. Carries(Append(written, Head(hold[g])), Lines(g, sent), 0, next)
    BY <1>1, <1>2, <1>3, <1>4, CarriesAppend
  <2> QED BY <2>1, <1>5, <1>6
<1>13. Flow(took, gave2)'
  BY <1>9, <1>10, <1>11, <1>12 DEF Flow
<1> QED BY <1>4, <1>13 DEF gave2

\* Steps that leave the items where they are.
LEMMA FlowStill ==
    ASSUME PipelineTypeOK, Onward, NEW took \in Cursors, NEW gave \in Cursors, Flow(took, gave),
           UNCHANGED <<sent, scanned, channel, hold, written>>
    PROVE  Flow(took, gave)'
<1> USE GoroutineNames
<1>1. protocol' = protocol /\ \A h : From(h)' = From(h)
  BY FromKept DEF Onward
<1>2. \A h \in Members(protocol) : Abandoned(h) => Abandoned(h)'
  BY DEF Abandoned, Onward
<1> QED BY <1>1, <1>2 DEF Flow

LEMMA FlowLeaves ==
    ASSUME PipelineTypeOK, NEW took \in Cursors, NEW gave \in Cursors, Flow(took, gave),
           NEW g \in running, NEW items \in Seq(Items), Leaves(g, items), UNCHANGED readerVars,
           Carries(items, Lines(g, sent), gave[g], took[g]) \/ Abandoned(g)'
    PROVE  Flow(took, gave)'
<1> USE GoroutineNames
<1>1. /\ UNCHANGED <<protocol, sent, scanned, channel, running, written>>
      /\ hold' = [hold EXCEPT ![g] = items] /\ leaving \subseteq leaving'
      /\ g \in Goroutines /\ Members(protocol) \subseteq Goroutines
  BY DEF Leaves, upstreamVars, readerVars, PipelineTypeOK, Members
<1>2. \A h : From(h)' = From(h)
  BY <1>1, FromKept
<1>3. hold'[g] = items /\ \A h \in Goroutines \ {g} : hold'[h] = hold[h]
  BY <1>1 DEF PipelineTypeOK
<1>4. \A h \in Goroutines \ {g} : Abandoned(h) => Abandoned(h)'
  BY <1>1, <1>3 DEF Abandoned, Gone
<1>5. ASSUME NEW h \in Members(protocol)'
      PROVE  gave[h] <= took[h] /\ (Carries(hold'[h], Lines(h, sent'), gave[h], took[h]) \/ Abandoned(h)')
  BY <1>1, <1>3, <1>4 DEF Flow
<1> QED BY <1>1, <1>2, <1>5 DEF Flow

\* At the head of its loop g has passed on all that it took.
LEMMA IdleGaveAll ==
    ASSUME PipelineTypeOK, NEW took \in Cursors, NEW gave \in Cursors, Flow(took, gave),
           NEW g \in Members(protocol), Idle(g)
    PROVE  /\ Carries(<<>>, Lines(g, sent), gave[g], took[g])
           /\ \A n \in Lines(g, sent) : ~(gave[g] < n /\ n <= took[g])
<1>1. hold[g] = <<>> /\ ~Abandoned(g)
  BY DEF Idle, Abandoned, Gone
<1>2. Carries(<<>>, Lines(g, sent), gave[g], took[g])
  BY <1>1 DEF Flow
<1>3. g \in Goroutines
  BY GoroutineNames DEF Members
<1>4. Lines(g, sent) \in SUBSET Nat
  <2>1. Len(sent) \in Nat
    BY DEF PipelineTypeOK
  <2> QED BY <2>1, LinesType
<1> QED BY <1>2, <1>3, <1>4, CarriesEmpty DEF Cursors

\* A goroutine that stops makes up what it sends last.
LEMMA FlowStops ==
    ASSUME PipelineTypeOK, NEW took \in Cursors, NEW gave \in Cursors, Flow(took, gave),
           NEW g \in Members(protocol), Idle(g), NEW items \in Seq(Items), Leaves(g, items),
           UNCHANGED readerVars, \A i \in 1 .. Len(items) : items[i].line = 0
    PROVE  Flow(took, gave)'
<1>1. g \in running /\ g \in Goroutines
  BY GoroutineNames DEF Idle, Members
<1>2. Lines(g, sent) \in SUBSET Nat /\ 0 \notin Lines(g, sent)
  <2>1. Len(sent) \in Nat
    BY DEF PipelineTypeOK
  <2> QED BY <2>1, LinesType
<1>3. Carries(items, Lines(g, sent), gave[g], took[g])
  BY <1>1, <1>2, IdleGaveAll, CarriesNone DEF Cursors
<1> QED BY <1>1, <1>3, FlowLeaves

LEMMA FlowScans ==
    ASSUME PipelineTypeOK, NEW took \in Cursors, NEW gave \in Cursors, Flow(took, gave),
           ReaderScans, NEW next, next = scanned + 1
    PROVE  next \in Nat /\ Flow([took EXCEPT !["reader"] = next], gave)'
<1> USE GoroutineNames
<1> DEFINE took2 == [took EXCEPT !["reader"] = next]
           item == [kind |-> sent[scanned + 1], line |-> scanned + 1]
<1>1. /\ scanned \in Nat /\ received \in Nat /\ scanned < received /\ received <= Len(sent)
      /\ Len(sent) \in Nat /\ sent \in Seq(LineKinds) /\ next \in Nat /\ next = scanned + 1
      /\ next \in 1 .. Len(sent)
  BY DEF ReaderScans, PipelineTypeOK
<1>2. item \in Items /\ item.line = next
  BY <1>1 DEF Items, ItemKinds
<1>3. /\ UNCHANGED <<protocol, sent, running, leaving, channel, written>>
      /\ hold' = [hold EXCEPT !["reader"] = <<item>>] /\ scanned' = next
      /\ "reader" \in Members(protocol) /\ Idle("reader") /\ Members(protocol) \subseteq Goroutines
  BY DEF ReaderScans, upstreamVars, Members
<1>4. /\ took["reader"] = scanned /\ gave["reader"] \in Nat /\ gave["reader"] <= scanned
      /\ Carries(<<>>, Lines("reader", sent), gave["reader"], scanned)
  BY <1>3, IdleGaveAll DEF Flow, Cursors
<1>5. Lines("reader", sent) \in SUBSET Nat
  BY <1>1, LinesType
<1>6. Carries(<<item>>, Lines("reader", sent), scanned, next)
  <2>1. item.line \in Lines("reader", sent) => scanned < item.line /\ item.line <= next
    BY <1>1, <1>2
  <2>2. \A n \in Lines("reader", sent) : scanned < n /\ n <= next => n = item.line
    BY <1>1, <1>2, <1>5
  <2> QED BY <1>1, <1>2, <1>5, <2>1, <2>2, CarriesOne
<1> HIDE DEF item
<1>7. Carries(<<item>>, Lines("reader", sent), gave["reader"], next)
  <2>1. <<item>> \in Seq(Items)
    BY <1>2
  <2> QED BY <2>1, <1>1, <1>4, <1>5, <1>6, CarriesFrom
<1>8. /\ took2["reader"] = next /\ \A h \in Goroutines \ {"reader"} : took2[h] = took[h]
      /\ hold'["reader"] = <<item>> /\ \A h \in Goroutines \ {"reader"} : hold'[h] = hold[h]
  BY <1>3 DEF Cursors, PipelineTypeOK
<1>9. \A h \in Goroutines \ {"reader"} : Abandoned(h) => Abandoned(h)'
  BY <1>3, <1>8 DEF Abandoned, Gone
<1>10. \A h : From(h)' = From(h)
  BY <1>3, FromKept
<1> HIDE DEF took2
<1>11. ASSUME NEW h \in Members(protocol)'
       PROVE  gave[h] <= took2[h] /\ (Carries(hold'[h], Lines(h, sent'), gave[h], took2[h]) \/ Abandoned(h)')
  <2>1. h \in Members(protocol) /\ h \in Goroutines
    BY <1>3
  <2>2. CASE h = "reader"
    BY <2>2, <1>1, <1>3, <1>4, <1>7, <1>8
  <2>3. CASE h # "reader"
    BY <2>1, <2>3, <1>3, <1>8, <1>9 DEF Flow
  <2> QED BY <2>2, <2>3
<1>12. ASSUME NEW h \in (Members(protocol) \ {"reader"})'
       PROVE  Linked(channel'[From(h)'], Lines(From(h)', sent'), took2[h], gave[From(h)'])
  <2>1. h \in Members(protocol) \ {"reader"} /\ h \in Goroutines
    BY <1>3
  <2> QED BY <2>1, <1>3, <1>8, <1>10 DEF Flow
<1>13. Flow(took2, gave)'
  BY <1>3, <1>8, <1>11, <1>12 DEF Flow
<1> QED BY <1>1, <1>13 DEF took2

\* Nobody is further than the reader.
LEMMA CursorsBounded ==
    ASSUME PipelineTypeOK, NEW took \in Cursors, NEW gave \in Cursors, Flow(took, gave),
           NEW g \in Members(protocol)
    PROVE  took[g] <= scanned /\ gave[g] <= scanned
<1> USE GoroutineNames
<1>1. \A h \in Goroutines : took[h] \in Nat /\ gave[h] \in Nat
  BY DEF Cursors
<1>2. \A h \in Members(protocol) : gave[h] <= took[h]
  BY DEF Flow
<1>3. \A h \in Members(protocol) \ {"reader"} : took[h] <= gave[From(h)]
  BY DEF Flow, Linked
<1>4. /\ protocol \in {"chat", "responses"} /\ scanned = took["reader"]
      /\ Members(protocol) \subseteq Goroutines
  BY Protocol DEF AllProtocols, Flow, Members
<1>5. took["parser"] <= gave["reader"] /\ gave["reader"] <= took["reader"] /\ gave["parser"] <= took["parser"]
  BY <1>2, <1>3, <1>4 DEF Members, From
<1>6. CASE protocol = "chat"
  <2>1. took["handler"] <= gave["parser"] /\ gave["handler"] <= took["handler"]
    BY <1>2, <1>3, <1>6 DEF Members, From
  <2>2. g \in {"reader", "parser", "handler"}
    BY <1>6 DEF Members
  <2> QED BY <1>1, <1>4, <1>5, <2>1, <2>2
<1>7. CASE protocol = "responses"
  <2>1. /\ took["guard"] <= gave["parser"] /\ gave["guard"] <= took["guard"]
        /\ took["adapter"] <= gave["guard"] /\ gave["adapter"] <= took["adapter"]
        /\ took["handler"] <= gave["adapter"] /\ gave["handler"] <= took["handler"]
    BY <1>2, <1>3, <1>7 DEF Members, From
  <2>2. g \in {"reader", "parser", "guard", "adapter", "handler"}
    BY <1>4
  <2> QED BY <1>1, <1>4, <1>5, <2>1, <2>2
<1> QED BY <1>4, <1>6, <1>7

\* What upstream sends now is further than anybody.
LEMMA LinesMore ==
    ASSUME PipelineTypeOK, PipelineTypeOK', Onward, NEW g, NEW h,
           NEW buf \in Seq(Items), Sound(h, buf, sent, scanned),
           NEW lo \in Nat, NEW hi \in Nat, hi <= scanned,
           Carries(buf, Lines(g, sent), lo, hi)
    PROVE  Carries(buf, Lines(g, sent'), lo, hi)
<1>1. /\ Len(sent) \in Nat /\ Len(sent') \in Nat /\ scanned \in Nat /\ scanned <= Len(sent)
      /\ received \in Nat
  BY DEF PipelineTypeOK
<1>2. Len(sent) <= Len(sent') /\ \A n \in 1 .. Len(sent) : sent'[n] = sent[n]
  BY DEF Onward
<1>3. /\ Lines(g, sent) \in SUBSET Nat /\ Lines(g, sent') \in SUBSET Nat
      /\ 0 \notin Lines(g, sent) /\ 0 \notin Lines(g, sent')
  BY <1>1, LinesType
<1>4. \A n \in 1 .. Len(sent) : n \in Lines(g, sent) <=> n \in Lines(g, sent')
  BY <1>1, <1>2 DEF Lines
<1>5. \A i \in 1 .. Len(buf) : buf[i].line # 0 => buf[i].line \in 1 .. Len(sent)
  BY <1>1 DEF Sound, Faithful
<1>6. hi <= Len(sent)
  BY <1>1
<1> QED BY <1>1, <1>3, <1>4, <1>5, <1>6, CarriesMore

LEMMA FlowUpstream ==
    ASSUME PipelineTypeOK, PipelineTypeOK', Onward, AllFaithful,
           NEW took \in Cursors, NEW gave \in Cursors, Flow(took, gave),
           NEW kind \in LineKinds, UpstreamSends(kind)
    PROVE  Flow(took, gave)'
<1> USE GoroutineNames
<1>1. /\ UNCHANGED <<protocol, scanned, channel, hold, running, leaving, written>>
      /\ \A h : From(h)' = From(h) /\ Members(protocol) \subseteq Goroutines
  BY FromKept DEF UpstreamSends, readerVars, Members
<1>2. \A h \in Goroutines : Abandoned(h) => Abandoned(h)'
  BY <1>1 DEF Abandoned, Gone
<1>3. \A h \in Goroutines : took[h] \in Nat /\ gave[h] \in Nat
  BY DEF Cursors
<1>4. \A h \in Members(protocol) : took[h] <= scanned /\ gave[h] <= scanned
  BY CursorsBounded
<1>5. ASSUME NEW h \in Members(protocol)
      PROVE  gave[h] <= took[h] /\ (Carries(hold[h], Lines(h, sent'), gave[h], took[h]) \/ Abandoned(h)')
  <2>1. h \in Goroutines /\ hold[h] \in Seq(Items) /\ Sound(h, hold[h], sent, scanned)
    BY <1>1 DEF PipelineTypeOK, AllFaithful
  <2>2. Carries(hold[h], Lines(h, sent), gave[h], took[h])
          => Carries(hold[h], Lines(h, sent'), gave[h], took[h])
    BY <2>1, <1>3, <1>4, LinesMore
  <2> QED BY <2>1, <2>2, <1>2 DEF Flow
<1>6. ASSUME NEW h \in Members(protocol) \ {"reader"}
      PROVE  Linked(channel[From(h)], Lines(From(h), sent'), took[h], gave[From(h)])
  <2>1. /\ h \in Goroutines /\ From(h) \in Senders /\ From(h) \in Members(protocol)
        /\ From(h) \in Goroutines
    BY <1>1, Protocol, FromAnother
  <2>2. channel[From(h)] \in Seq(Items) /\ Sound(From(h), channel[From(h)], sent, scanned)
    BY <2>1 DEF PipelineTypeOK, AllFaithful
  <2>3. Linked(channel[From(h)], Lines(From(h), sent), took[h], gave[From(h)])
    BY DEF Flow
  <2> QED BY <2>1, <2>2, <2>3, <1>3, <1>4, LinesMore DEF Linked
<1>7. Carries(written, Lines("handler", sent'), 0, gave["handler"])
  <2>1. "handler" \in Members(protocol) /\ written \in Seq(Items)
    BY DEF Members, PipelineTypeOK
  <2>2. Sound("handler", written, sent, scanned)
    BY DEF AllFaithful
  <2>3. Carries(written, Lines("handler", sent), 0, gave["handler"])
    BY DEF Flow
  <2> QED BY <2>1, <2>2, <2>3, <1>3, <1>4, LinesMore
<1> QED BY <1>1, <1>5, <1>6, <1>7 DEF Flow

LEMMA FlowInit == PipelineInit => Flow([g \in Goroutines |-> 0], [g \in Goroutines |-> 0]) /\ AllFaithful
<1> SUFFICES ASSUME PipelineInit
             PROVE  Flow([g \in Goroutines |-> 0], [g \in Goroutines |-> 0]) /\ AllFaithful
  OBVIOUS
<1> USE GoroutineNames
<1>1. PipelineTypeOK /\ protocol \in AllProtocols
  BY PipelineTypeInit, Protocol
<1>2. /\ Members(protocol) \subseteq Goroutines
      /\ \A g \in Goroutines : hold[g] = <<>>
      /\ \A g \in Senders : channel[g] = <<>>
      /\ written = <<>> /\ scanned = 0
  BY DEF PipelineInit, Members
<1>3. \A lines \in SUBSET Nat : Carries(<<>>, lines, 0, 0)
  BY DEF Carries
<1>4. \A g \in Goroutines : Carries(<<>>, Lines(g, sent), 0, 0)
  <2>1. Len(sent) \in Nat
    BY <1>1 DEF PipelineTypeOK
  <2> QED BY <2>1, <1>3, LinesType
<1>5. \A g \in Members(protocol) \ {"reader"} : From(g) \in Senders /\ From(g) \in Goroutines
  BY <1>1, FromAnother
<1>6. Flow([g \in Goroutines |-> 0], [g \in Goroutines |-> 0])
  BY <1>2, <1>4, <1>5 DEF Flow, Linked
<1>7. AllFaithful
  BY <1>2 DEF AllFaithful, Sound
<1> QED BY <1>6, <1>7

-----------------------------------------------------------------------------
(* Content in order *)

\* What the handler has written is in order and without gaps.
LEMMA FlowInOrder ==
    ASSUME PipelineTypeOK, AllFaithful,
           NEW took \in Cursors, NEW gave \in Cursors, Flow(took, gave)
    PROVE  InOrder
<1>1. /\ written \in Seq(Items) /\ DOMAIN written = 1 .. Len(written) /\ Len(written) \in Nat
      /\ \A i \in 1 .. Len(written) : written[i].line \in Nat
      /\ scanned \in Nat /\ Len(sent) \in Nat /\ scanned <= Len(sent)
      /\ \A n \in 1 .. scanned : n \in Nat /\ sent[n] \in LineKinds
  <2>1. /\ written \in Seq(Items) /\ sent \in Seq(LineKinds)
        /\ received \in 0 .. Len(sent) /\ scanned \in 0 .. received
    BY DEF PipelineTypeOK
  <2>2. /\ DOMAIN written = 1 .. Len(written) /\ Len(written) \in Nat
        /\ \A i \in 1 .. Len(written) : written[i] \in Items
    BY <2>1
  <2>3. /\ received \in Nat /\ scanned \in Nat /\ Len(sent) \in Nat /\ scanned <= Len(sent)
        /\ \A n \in 1 .. Len(sent) : sent[n] \in LineKinds
    BY <2>1
  <2>4. \A n \in 1 .. scanned : n \in Nat /\ n \in 1 .. Len(sent)
    BY <2>3
  <2>5. \A item \in Items : item.line \in Nat
    BY DEF Items
  <2> QED BY <2>1, <2>2, <2>3, <2>4, <2>5
<1>2. Carries(written, Lines("handler", sent), 0, gave["handler"]) /\ gave["handler"] \in Nat
  BY GoroutineNames DEF Flow, Cursors
<1>3. ASSUME NEW i \in 1 .. Len(written)
      PROVE  /\ written[i].kind = "data" => written[i].line \in Sent("data", scanned)
             /\ written[i].line \in Sent("data", scanned) => written[i].kind = "data"
  <2>1. Faithful("handler", written[i], sent, scanned)
    BY DEF AllFaithful, Sound
  <2> QED BY <2>1, <1>1 DEF Faithful, Unnumbered, Parsed, Sent, LineKinds
<1>4. Sent("data", scanned) \subseteq Lines("handler", sent)
  BY <1>1 DEF Sent, Lines
<1> SUFFICES ASSUME NEW i \in 1 .. Len(written), written[i].kind = "data"
             PROVE  /\ written[i].line \in Sent("data", scanned)
                    /\ Content(i - 1) = {j \in Sent("data", scanned) : j < written[i].line}
  BY <1>1 DEF InOrder
<1>5. written[i].line \in Sent("data", scanned) /\ written[i].line \in Lines("handler", sent)
  BY <1>3, <1>4
<1>6. ASSUME NEW k \in 1 .. i - 1, written[k].kind = "data"
      PROVE  written[k].line \in {j \in Sent("data", scanned) : j < written[i].line}
  <2>1. k \in 1 .. Len(written) /\ k < i
    BY <1>1
  <2>2. written[k].line \in Sent("data", scanned) /\ written[k].line \in Lines("handler", sent)
    BY <2>1, <1>3, <1>4, <1>6
  <2> QED BY <2>1, <2>2, <1>2, <1>5 DEF Carries
<1>7. ASSUME NEW j \in Sent("data", scanned), j < written[i].line
      PROVE  \E k \in 1 .. i - 1 : written[k].kind = "data" /\ written[k].line = j
  <2>1. j \in Lines("handler", sent) /\ j \in Nat /\ 0 < j
    BY <1>4, <1>1 DEF Sent
  <2>2. written[i].line <= gave["handler"] /\ written[i].line \in Nat
    BY <1>1, <1>2, <1>5 DEF Carries
  <2>3. j <= gave["handler"]
    BY <1>2, <1>7, <2>1, <2>2
  <2>4. PICK k \in 1 .. Len(written) : written[k].line = j
    BY <2>1, <2>3, <1>2 DEF Carries
  <2>5. ~(i < k)
    BY <2>1, <2>2, <2>4, <1>2, <1>5, <1>7 DEF Carries
  <2>6. i # k
    BY <2>2, <2>4, <1>7
  <2>7. k \in 1 .. i - 1
    BY <2>4, <2>5, <2>6, <1>1
  <2> QED BY <2>4, <2>7, <1>3
<1>8. Content(i - 1) = {j \in Sent("data", scanned) : j < written[i].line}
  BY <1>6, <1>7 DEF Content
<1> QED BY <1>5, <1>8

-----------------------------------------------------------------------------
(* Errors and ends *)

\* The lines of that kind among the first n.
Of(kind, s, n) == {i \in 1 .. n : s[i] = kind}

HasKind(buf, kind) == \E i \in 1 .. Len(buf) : buf[i].kind = kind
Failing(g) == HasKind(hold[g], "error") \/ HasKind(channel[g], "error")

\* Why a message may be cut.
BadFirst == \E bad \in Of("bad", sent, scanned) : protocol = "chat" => Of("end", sent, bad) = {}
Silent ==
    /\ Gone("reader")
    /\ \/ reader.timedOut
       \/ wire = "broken"
       \/ wire = "ended" /\ Of("end", sent, scanned) = {}
    /\ protocol = "chat" => Of("end", sent, scanned) = {}
Excused == clientGone \/ BadFirst \/ Silent

\* Among the first n lines is the end of a message, and no failure before it.
WholeAt(s, n) == \E end \in Of("end", s, n) : Of("bad", s, end) = {}

Emptied == \A g \in Goroutines : g \notin running => hold[g] = <<>>

BodyClosedFor ==
    bodyClosed =>
        reader.timedOut \/ "reader" \notin running \/ "parser" \notin running \/ "handler" \notin running

\* The error of the reader is the last it sends, and it fails or ends for a reason.
ReaderFacts ==
    /\ Len(hold["reader"]) <= 1
    /\ \A i \in 1 .. Len(channel["reader"]) :
          channel["reader"][i].kind = "error" =>
              i = Len(channel["reader"]) /\ hold["reader"] = <<>> /\ Gone("reader")
    /\ HasKind(hold["reader"], "error") => Gone("reader")
    /\ Failing("reader") =>
          reader.timedOut \/ wire = "broken" \/ "parser" \notin running \/ Gone("handler")
    /\ Gone("reader") =>
          \/ Failing("reader")
          \/ wire = "ended" /\ scanned = Len(sent)
          \/ Gone("parser") \/ Gone("handler")

ParserFacts(took) ==
    /\ protocol = "chat" /\ ~Gone("parser") => \A n \in 1 .. took["parser"] : sent[n] = "data"
    /\ protocol = "chat" /\ Gone("parser") =>
          Failing("parser") \/ WholeAt(sent, took["parser"]) \/ Gone("handler")
    /\ protocol = "responses" /\ Gone("parser") =>
          \/ Failing("parser") \/ "failed" \in saw
          \/ Gone("reader") /\ wire = "ended" /\ took["parser"] = scanned
          \/ Gone("guard") \/ Gone("handler")

GuardFacts(took) ==
    protocol = "responses" =>
        /\ "terminal" \in saw <=> Of("end", sent, took["guard"]) # {}
        /\ "failed" \notin saw => Of("bad", sent, took["guard"]) = {}
        /\ "failed" \in saw \/ (Gone("guard") /\ saw = {}) => Failing("guard") \/ Gone("adapter")

AdapterFacts(took) ==
    protocol = "responses" /\ Gone("adapter") =>
        \/ Failing("adapter") \/ Gone("handler")
        \/ "guard" \notin running /\ channel["guard"] = <<>> /\ WholeAt(sent, took["guard"])

FailsFor(g) == Failing(g) => Gone("handler") \/ Excused
Errors == \A g \in {"parser", "guard", "adapter"} : FailsFor(g)

Stops == HasKind(hold["handler"], "stop") \/ HasKind(written, "stop")

\* All the content before the end of the message is written.
Complete(s, n, w) ==
    \E end \in Of("end", s, n) :
        /\ Of("bad", s, end) = {}
        /\ \A line \in Of("data", s, end) : \E i \in 1 .. Len(w) : w[i].line = line

HandlerFacts ==
    /\ Gone("handler") => Excused \/ Stops
    /\ Stops => Complete(sent, scanned, written)

Facts(took) ==
    /\ Emptied /\ BodyClosedFor /\ ReaderFacts
    /\ ParserFacts(took) /\ GuardFacts(took) /\ AdapterFacts(took)
    /\ Errors /\ HandlerFacts

LEMMA Counters ==
    ASSUME PipelineTypeOK
    PROVE  scanned \in Nat /\ Len(sent) \in Nat /\ scanned <= Len(sent)
BY DEF PipelineTypeOK

\* A cursor is not beyond what was sent.
LEMMA CursorType ==
    ASSUME PipelineTypeOK, NEW took \in Cursors, NEW g \in Goroutines, took[g] <= scanned
    PROVE  took[g] \in Nat /\ took[g] <= Len(sent)
BY Counters DEF Cursors

LEMMA OfKept ==
    ASSUME PipelineTypeOK, Onward, NEW n \in Nat, n <= Len(sent)
    PROVE  \A kind : Of(kind, sent', n) = Of(kind, sent, n)
<1>1. Len(sent) \in Nat
  BY DEF PipelineTypeOK
<1>2. \A i \in 1 .. n : sent'[i] = sent[i]
  BY <1>1 DEF Onward
<1> QED BY <1>2 DEF Of

LEMMA WholeKept ==
    ASSUME PipelineTypeOK, Onward, NEW n \in Nat, n <= Len(sent), WholeAt(sent, n)
    PROVE  WholeAt(sent', n)
<1>1. PICK end \in Of("end", sent, n) : Of("bad", sent, end) = {}
  BY DEF WholeAt
<1>2. end \in Nat /\ end <= Len(sent) /\ Len(sent) \in Nat
  <2>1. Len(sent) \in Nat
    BY DEF PipelineTypeOK
  <2> QED BY <2>1 DEF Of
<1>3. end \in Of("end", sent', n) /\ Of("bad", sent', end) = {}
  BY <1>1, <1>2, OfKept
<1> QED BY <1>3 DEF WholeAt

\* An excuse stays one.
LEMMA ExcusedKept ==
    ASSUME PipelineTypeOK, PipelineTypeOK', Onward, Excused
    PROVE  Excused'
<1>1. /\ Len(sent) \in Nat /\ scanned \in Nat /\ scanned <= Len(sent)
      /\ scanned' \in Nat /\ scanned <= scanned'
  BY DEF PipelineTypeOK, Onward
<1>2. CASE clientGone
  BY <1>2 DEF Excused, Onward
<1>3. CASE BadFirst
  <2>1. PICK bad \in Of("bad", sent, scanned) : protocol = "chat" => Of("end", sent, bad) = {}
    BY <1>3 DEF BadFirst
  <2>2. bad \in Nat /\ bad \in 1 .. scanned /\ bad \in 1 .. scanned' /\ bad <= Len(sent)
    BY <1>1 DEF Of
  <2>3. bad \in Of("bad", sent', scanned)
    BY <1>1, OfKept
  <2>4. bad \in Of("bad", sent', scanned')
    BY <2>2, <2>3 DEF Of
  <2>5. protocol' = "chat" => Of("end", sent', bad) = {}
    BY <2>1, <2>2, OfKept DEF Onward
  <2>6. BadFirst'
    BY <2>4, <2>5 DEF BadFirst
  <2> QED BY <2>6 DEF Excused
<1>4. CASE Silent
  <2>1. Gone("reader") /\ Gone("reader")' /\ scanned' = scanned /\ protocol' = protocol
    BY <1>4, GoroutineNames DEF Silent, Onward
  <2>2. Of("end", sent', scanned') = Of("end", sent, scanned)
    BY <2>1, <1>1, OfKept
  <2>3. reader.timedOut => reader'.timedOut
    BY DEF Onward
  <2>4. wire # "open" => wire' = wire
    BY DEF Onward
  <2>5. Silent'
    BY <1>4, <2>1, <2>2, <2>3, <2>4 DEF Silent
  <2> QED BY <2>5 DEF Excused
<1> QED BY <1>2, <1>3, <1>4 DEF Excused

LEMMA FailsForKept ==
    ASSUME PipelineTypeOK, PipelineTypeOK', Onward, NEW g, FailsFor(g), Failing(g)' => Failing(g)
    PROVE  FailsFor(g)'
<1>1. Gone("handler") => Gone("handler")'
  BY GoroutineNames DEF Onward
<1> QED BY <1>1, ExcusedKept DEF FailsFor

LEMMA ReaderFactsKept ==
    ASSUME PipelineTypeOK, Onward, ReaderFacts,
           hold'["reader"] = hold["reader"], channel'["reader"] = channel["reader"],
           Gone("reader")' => Gone("reader")
    PROVE  ReaderFacts'
<1>1. \A g \in Goroutines : (Gone(g) => Gone(g)') /\ (g \notin running => g \notin running')
  BY DEF Onward
<1>2. Failing("reader")' <=> Failing("reader")
  BY DEF Failing
<1>3. reader.timedOut => reader'.timedOut
  BY DEF Onward
<1>4. wire = "broken" => wire' = "broken"
  BY DEF Onward
<1>5. Gone("reader") /\ wire = "ended" /\ scanned = Len(sent) => wire' = "ended" /\ scanned' = Len(sent')
  BY DEF Onward
<1>6. Failing("reader")' =>
        reader'.timedOut \/ wire' = "broken" \/ "parser" \notin running' \/ Gone("handler")'
  BY <1>1, <1>2, <1>3, <1>4, GoroutineNames DEF ReaderFacts
<1>7. Gone("reader")' =>
         \/ Failing("reader")' \/ (wire' = "ended" /\ scanned' = Len(sent'))
         \/ Gone("parser")' \/ Gone("handler")'
  BY <1>1, <1>2, <1>5, GoroutineNames DEF ReaderFacts
<1>8. Gone("reader") => Gone("reader")'
  BY <1>1, GoroutineNames
<1> QED BY <1>6, <1>7, <1>8 DEF ReaderFacts

LEMMA ParserFactsKept ==
    ASSUME PipelineTypeOK, Onward, NEW took \in Cursors, took["parser"] <= scanned, ParserFacts(took),
           Gone("parser")' => Gone("parser"), "failed" \in saw => "failed" \in saw',
           Failing("parser") => \/ Failing("parser")' \/ Gone("handler")'
                                \/ protocol = "responses" /\ "failed" \in saw'
    PROVE  ParserFacts(took)'
<1>1. \A g \in Goroutines : Gone(g) => Gone(g)'
  BY DEF Onward
<1>2. took["parser"] \in Nat /\ took["parser"] <= Len(sent) /\ Len(sent) \in Nat
  BY GoroutineNames, CursorType, Counters
<1>3. \A n \in 1 .. took["parser"] : sent'[n] = sent[n]
  BY <1>2 DEF Onward
<1>4. WholeAt(sent, took["parser"]) => WholeAt(sent', took["parser"])
  BY <1>2, WholeKept
<1>5. protocol' = protocol
  BY DEF Onward
<1>6. Gone("reader") /\ wire = "ended" /\ took["parser"] = scanned
        => Gone("reader")' /\ wire' = "ended" /\ took["parser"] = scanned'
  BY <1>1, GoroutineNames DEF Onward
<1>7. protocol' = "chat" /\ ~Gone("parser")' => \A n \in 1 .. took["parser"] : sent'[n] = "data"
  BY <1>1, <1>3, <1>5, GoroutineNames DEF ParserFacts
<1>8. protocol' = "chat" /\ Gone("parser")' =>
        Failing("parser")' \/ WholeAt(sent', took["parser"]) \/ Gone("handler")'
  BY <1>1, <1>4, <1>5, GoroutineNames DEF ParserFacts
<1>9. protocol' = "responses" /\ Gone("parser")' =>
         \/ Failing("parser")' \/ "failed" \in saw'
         \/ Gone("reader")' /\ wire' = "ended" /\ took["parser"] = scanned'
         \/ Gone("guard")' \/ Gone("handler")'
  BY <1>1, <1>5, <1>6, GoroutineNames DEF ParserFacts
<1> QED BY <1>7, <1>8, <1>9 DEF ParserFacts

LEMMA GuardFactsKept ==
    ASSUME PipelineTypeOK, Onward, NEW took \in Cursors,
           protocol = "responses" => took["guard"] <= scanned, GuardFacts(took),
           saw' = saw, Gone("guard")' => Gone("guard"),
           Failing("guard") => Failing("guard")' \/ Gone("adapter")'
    PROVE  GuardFacts(took)'
<1> SUFFICES ASSUME protocol' = "responses"
             PROVE  GuardFacts(took)'
  BY DEF GuardFacts
<1>1. protocol = "responses" /\ (Gone("adapter") => Gone("adapter")')
  BY GoroutineNames DEF Onward
<1>2. took["guard"] \in Nat /\ took["guard"] <= Len(sent)
  BY <1>1, GoroutineNames, CursorType
<1>3. \A kind : Of(kind, sent', took["guard"]) = Of(kind, sent, took["guard"])
  BY <1>2, OfKept
<1> QED BY <1>1, <1>3 DEF GuardFacts

LEMMA AdapterFactsKept ==
    ASSUME PipelineTypeOK, Onward, NEW took \in Cursors,
           protocol = "responses" => took["guard"] <= scanned, AdapterFacts(took),
           Gone("adapter")' => Gone("adapter"),
           Failing("adapter") => Failing("adapter")' \/ Gone("handler")',
           "guard" \notin running /\ channel["guard"] = <<>> => channel'["guard"] = <<>>
    PROVE  AdapterFacts(took)'
<1> SUFFICES ASSUME protocol' = "responses", Gone("adapter")'
             PROVE  \/ Failing("adapter")' \/ Gone("handler")'
                    \/ "guard" \notin running' /\ channel'["guard"] = <<>> /\ WholeAt(sent', took["guard"])
  BY DEF AdapterFacts
<1>1. /\ protocol = "responses" /\ (Gone("handler") => Gone("handler")')
      /\ "guard" \notin running => "guard" \notin running'
  BY GoroutineNames DEF Onward
<1>2. took["guard"] \in Nat /\ took["guard"] <= Len(sent)
  BY <1>1, GoroutineNames, CursorType
<1>3. WholeAt(sent, took["guard"]) => WholeAt(sent', took["guard"])
  BY <1>2, WholeKept
<1> QED BY <1>1, <1>3 DEF AdapterFacts

LEMMA CompleteKept ==
    ASSUME PipelineTypeOK, PipelineTypeOK', Onward, Complete(sent, scanned, written),
           \A i \in 1 .. Len(written) : \E j \in 1 .. Len(written') : written'[j].line = written[i].line
    PROVE  Complete(sent', scanned', written')
<1>1. /\ Len(sent) \in Nat /\ scanned \in Nat /\ scanned <= Len(sent)
      /\ scanned' \in Nat /\ scanned <= scanned'
  BY DEF PipelineTypeOK, Onward
<1>2. PICK end \in Of("end", sent, scanned) :
        /\ Of("bad", sent, end) = {}
        /\ \A line \in Of("data", sent, end) : \E i \in 1 .. Len(written) : written[i].line = line
  BY DEF Complete
<1>3. end \in Nat /\ end \in 1 .. scanned' /\ end <= Len(sent)
  BY <1>1 DEF Of
<1>4. end \in Of("end", sent', scanned')
  <2>1. end \in Of("end", sent', scanned)
    BY <1>1, OfKept
  <2> QED BY <2>1, <1>3 DEF Of
<1>5. Of("bad", sent', end) = {} /\ Of("data", sent', end) = Of("data", sent, end)
  BY <1>2, <1>3, OfKept
<1>6. \A line \in Of("data", sent, end) : \E i \in 1 .. Len(written') : written'[i].line = line
  BY <1>2
<1> QED BY <1>4, <1>5, <1>6 DEF Complete

LEMMA HandlerFactsKept ==
    ASSUME PipelineTypeOK, PipelineTypeOK', Onward, HandlerFacts,
           Gone("handler")' => Gone("handler"), Stops' <=> Stops,
           \A i \in 1 .. Len(written) : \E j \in 1 .. Len(written') : written'[j].line = written[i].line
    PROVE  HandlerFacts'
<1>1. Gone("handler")' => Excused' \/ Stops'
  BY ExcusedKept DEF HandlerFacts
<1>2. Stops' => Complete(sent', scanned', written')
  BY CompleteKept DEF HandlerFacts
<1> QED BY <1>1, <1>2 DEF HandlerFacts

\* Who counts lines that matter has counted only scanned ones.
Bounded(took) ==
    took["parser"] <= scanned /\ (protocol = "responses" => took["guard"] <= scanned)

\* Steps that neither make nor lose an error, and after which nobody but the
\* reader has newly gone.
LEMMA FactsFrame ==
    ASSUME PipelineTypeOK, PipelineTypeOK', Onward, NEW took \in Cursors, Bounded(took), Facts(took),
           Emptied', BodyClosedFor', ReaderFacts',
           \A g \in {"parser", "guard", "adapter"} : Failing(g)' <=> Failing(g),
           \A g \in {"parser", "guard", "adapter", "handler"} : Gone(g)' => Gone(g),
           saw' = saw, "guard" \notin running /\ channel["guard"] = <<>> => channel'["guard"] = <<>>,
           Stops' <=> Stops,
           \A i \in 1 .. Len(written) : \E j \in 1 .. Len(written') : written'[j].line = written[i].line
    PROVE  Facts(took)'
<1>1. ParserFacts(took)'
  BY ParserFactsKept DEF Facts, Bounded
<1>2. GuardFacts(took)'
  BY GuardFactsKept DEF Facts, Bounded
<1>3. AdapterFacts(took)'
  BY AdapterFactsKept DEF Facts, Bounded
<1>4. Errors'
  <2>1. \A g \in {"parser", "guard", "adapter"} : FailsFor(g)'
    BY FailsForKept DEF Facts, Errors
  <2> QED BY <2>1 DEF Errors
<1>5. HandlerFacts'
  BY HandlerFactsKept DEF Facts
<1> QED BY <1>1, <1>2, <1>3, <1>4, <1>5 DEF Facts

LEMMA FactsQuiet ==
    ASSUME PipelineTypeOK, PipelineTypeOK', Onward, NEW took \in Cursors, Bounded(took), Facts(took),
           UNCHANGED <<channel, hold, leaving, running, saw, written>>, BodyClosedFor'
    PROVE  Facts(took)'
<1>1. Emptied'
  BY DEF Facts, Emptied
<1>2. \A g : (Gone(g)' <=> Gone(g)) /\ (Failing(g)' <=> Failing(g))
  BY DEF Gone, Failing
<1>3. ReaderFacts'
  BY <1>2, ReaderFactsKept DEF Facts
<1>4. Stops' <=> Stops
  BY DEF Stops
<1> QED BY <1>1, <1>2, <1>3, <1>4, FactsFrame

LEMMA FactsScans ==
    ASSUME PipelineTypeOK, PipelineTypeOK', Onward, NEW took \in Cursors, Bounded(took), Facts(took),
           ReaderScans
    PROVE  Facts(took)'
<1> USE GoroutineNames
<1> DEFINE item == [kind |-> sent[scanned + 1], line |-> scanned + 1]
<1>1. /\ UNCHANGED <<bodyClosed, reader, channel, leaving, running, saw, written>>
      /\ hold' = [hold EXCEPT !["reader"] = <<item>>] /\ Idle("reader")
  BY DEF ReaderScans
<1>2. item.kind # "error"
  <2>1. scanned + 1 \in 1 .. Len(sent) /\ sent \in Seq(LineKinds)
    BY DEF ReaderScans, PipelineTypeOK
  <2>2. sent[scanned + 1] \in LineKinds
    BY <2>1
  <2> QED BY <2>2 DEF LineKinds
<1> HIDE DEF item
<1>3. hold'["reader"] = <<item>> /\ \A g \in Goroutines \ {"reader"} : hold'[g] = hold[g]
  BY <1>1 DEF PipelineTypeOK
<1>4. Emptied' /\ BodyClosedFor'
  <2>1. Emptied'
    BY <1>1, <1>3 DEF Facts, Emptied, Idle
  <2>2. BodyClosedFor'
    BY <1>1 DEF Facts, BodyClosedFor
  <2> QED BY <2>1, <2>2
<1>5. \A g : Gone(g)' <=> Gone(g)
  BY <1>1 DEF Gone
<1>6. \A g \in Goroutines \ {"reader"} : Failing(g)' <=> Failing(g)
  BY <1>1, <1>3 DEF Failing
<1>7. ReaderFacts'
  <2>1. ~Gone("reader") /\ ~Gone("reader")'
    BY <1>1, <1>5 DEF Idle, Gone
  <2>2. \A i \in 1 .. Len(channel["reader"]) : channel["reader"][i].kind # "error"
    BY <2>1 DEF Facts, ReaderFacts
  <2>3. Len(hold'["reader"]) = 1 /\ ~HasKind(hold'["reader"], "error")
    BY <1>2, <1>3 DEF HasKind
  <2>4. ~HasKind(channel'["reader"], "error")
    BY <1>1, <2>2 DEF HasKind
  <2>5. ~Failing("reader")'
    BY <2>3, <2>4 DEF Failing
  <2>6. \A i \in 1 .. Len(channel'["reader"]) : channel'["reader"][i].kind # "error"
    BY <2>4 DEF HasKind
  <2>7. Len(hold'["reader"]) <= 1
    BY <2>3
  <2> QED BY <2>1, <2>3, <2>5, <2>6, <2>7 DEF ReaderFacts
<1>8. Stops' <=> Stops
  BY <1>1, <1>3 DEF Stops
<1> QED BY <1>1, <1>4, <1>5, <1>6, <1>7, <1>8, FactsFrame

\* Sending moves an item; whether one of them is an error stays as it is.
LEMMA KindMoves ==
    ASSUME NEW buf \in Seq(Items), buf # <<>>, NEW to \in Seq(Items), NEW kind
    PROVE  HasKind(Tail(buf), kind) \/ HasKind(Append(to, Head(buf)), kind)
             <=> HasKind(buf, kind) \/ HasKind(to, kind)
<1>1. /\ Head(buf) = buf[1] /\ 1 \in 1 .. Len(buf)
      /\ \A i \in 1 .. Len(Tail(buf)) : Tail(buf)[i] = buf[i + 1] /\ i + 1 \in 1 .. Len(buf)
      /\ \A i \in 1 .. Len(buf) : i = 1 \/ (i - 1 \in 1 .. Len(Tail(buf)) /\ Tail(buf)[i - 1] = buf[i])
  OBVIOUS
<1>2. /\ Append(to, Head(buf))[Len(to) + 1] = Head(buf)
      /\ Len(Append(to, Head(buf))) = Len(to) + 1 /\ Len(to) + 1 \in 1 .. Len(to) + 1
      /\ \A i \in 1 .. Len(to) : Append(to, Head(buf))[i] = to[i] /\ i \in 1 .. Len(to) + 1
      /\ \A i \in 1 .. Len(to) + 1 : i \in 1 .. Len(to) \/ i = Len(to) + 1
  OBVIOUS
<1>3. HasKind(buf, kind) <=> buf[1].kind = kind \/ HasKind(Tail(buf), kind)
  <2>1. HasKind(buf, kind) => buf[1].kind = kind \/ HasKind(Tail(buf), kind)
    BY <1>1 DEF HasKind
  <2>2. HasKind(Tail(buf), kind) => HasKind(buf, kind)
    BY <1>1 DEF HasKind
  <2>3. buf[1].kind = kind => HasKind(buf, kind)
    BY <1>1 DEF HasKind
  <2> QED BY <2>1, <2>2, <2>3
<1>4. HasKind(Append(to, Head(buf)), kind) <=> HasKind(to, kind) \/ buf[1].kind = kind
  BY <1>1, <1>2 DEF HasKind
<1> QED BY <1>3, <1>4

LEMMA FactsSends ==
    ASSUME PipelineTypeOK, PipelineTypeOK', Onward, NEW took \in Cursors, Bounded(took), Facts(took),
           NEW g \in Senders, Sends(g)
    PROVE  Facts(took)'
<1> USE GoroutineNames
<1>1. /\ UNCHANGED <<bodyClosed, reader, leaving, running, saw, written>>
      /\ hold' = [hold EXCEPT ![g] = Tail(@)]
      /\ channel' = [channel EXCEPT ![g] = Append(@, Head(hold[g]))]
      /\ g \in running /\ hold[g] # <<>>
  BY DEF Sends, readerVars
<1>2. hold[g] \in Seq(Items) /\ channel[g] \in Seq(Items)
  BY DEF PipelineTypeOK
<1>3. /\ hold'[g] = Tail(hold[g]) /\ \A h \in Goroutines \ {g} : hold'[h] = hold[h]
      /\ channel'[g] = Append(channel[g], Head(hold[g]))
      /\ \A h \in Senders \ {g} : channel'[h] = channel[h]
  BY <1>1 DEF PipelineTypeOK
<1>4. Emptied'
  BY <1>1, <1>3 DEF Facts, Emptied
<1>5. BodyClosedFor'
  BY <1>1 DEF Facts, BodyClosedFor
<1>6. \A h : Gone(h)' <=> Gone(h)
  BY <1>1 DEF Gone
<1>7. \A h \in Senders : Failing(h)' <=> Failing(h)
  <2>1. \A h \in Senders \ {g} : Failing(h)' <=> Failing(h)
    BY <1>3 DEF Failing
  <2>2. Failing(g)' <=> Failing(g)
    BY <1>1, <1>2, <1>3, KindMoves DEF Failing
  <2> QED BY <2>1, <2>2
<1>8. ReaderFacts'
  <2>1. CASE g # "reader"
    BY <2>1, <1>3, <1>6, ReaderFactsKept DEF Facts
  <2>2. CASE g = "reader"
    <3>1. Len(hold["reader"]) = 1 /\ hold'["reader"] = <<>>
      <4>1. Len(hold["reader"]) <= 1
        BY DEF Facts, ReaderFacts
      <4>2. Len(hold["reader"]) = 1
        <5>1. Len(hold["reader"]) \in Nat \ {0}
          BY <2>2, <1>1, <1>2, EmptySeq
        <5>2. \A n \in Nat \ {0} : n <= 1 => n = 1
          OBVIOUS
        <5> QED BY <5>1, <5>2, <4>1
      <4>3. Tail(hold["reader"]) \in Seq(Items) /\ Len(Tail(hold["reader"])) = 0
        <5>1. hold["reader"] \in Seq(Items) /\ hold["reader"] # <<>>
          BY <2>2, <1>1, <1>2
        <5>2. /\ Tail(hold["reader"]) \in Seq(Items)
              /\ Len(Tail(hold["reader"])) = Len(hold["reader"]) - 1
          BY <5>1, HeadTailProperties
        <5> QED BY <5>2, <4>2
      <4> QED BY <2>2, <4>2, <4>3, <1>3, EmptySeq
    <3>2. \A i \in 1 .. Len(channel["reader"]) : channel["reader"][i].kind # "error"
      BY <2>2, <1>1 DEF Facts, ReaderFacts
    <3>3. /\ Len(channel'["reader"]) = Len(channel["reader"]) + 1
          /\ \A i \in 1 .. Len(channel'["reader"]) :
                IF i = Len(channel'["reader"]) THEN channel'["reader"][i] = hold["reader"][1]
                ELSE i \in 1 .. Len(channel["reader"]) /\ channel'["reader"][i] = channel["reader"][i]
      BY <2>2, <1>2, <1>3
    <3>4. hold["reader"][1].kind = "error" => Gone("reader")
      BY <3>1 DEF Facts, ReaderFacts, HasKind
    <3>5. \A i \in 1 .. Len(channel'["reader"]) :
             channel'["reader"][i].kind = "error" =>
                i = Len(channel'["reader"]) /\ hold'["reader"] = <<>> /\ Gone("reader")'
      BY <3>1, <3>2, <3>3, <3>4, <1>6
    <3>6. Len(hold'["reader"]) <= 1 /\ ~HasKind(hold'["reader"], "error")
      BY <3>1 DEF HasKind
    <3>7. wire' = wire /\ sent' = sent /\ scanned' = scanned
      BY DEF Sends, upstreamVars, readerVars
    <3> QED BY <3>5, <3>6, <3>7, <1>1, <1>6, <1>7 DEF Facts, ReaderFacts
  <2> QED BY <2>1, <2>2
<1>9. "guard" \notin running /\ channel["guard"] = <<>> => channel'["guard"] = <<>>
  BY <1>1, <1>3
<1>10. Stops' <=> Stops
  BY <1>1, <1>3 DEF Stops
<1> QED BY <1>1, <1>4, <1>5, <1>6, <1>7, <1>8, <1>9, <1>10, FactsFrame

LEMMA FactsReturns ==
    ASSUME PipelineTypeOK, PipelineTypeOK', Onward, NEW took \in Cursors, Bounded(took), Facts(took),
           NEW g \in Goroutines, Returns(g)
    PROVE  Facts(took)'
<1>1. /\ UNCHANGED <<channel, hold, saw, written>>
      /\ running' = running \ {g} /\ leaving' = leaving \ {g} /\ hold[g] = <<>>
      /\ g \in running /\ g \in leaving
  BY DEF Returns
<1>2. \A h : (Gone(h)' <=> Gone(h)) /\ (Failing(h)' <=> Failing(h))
  BY <1>1 DEF Gone, Failing
<1>3. Emptied'
  BY <1>1 DEF Facts, Emptied
<1>4. BodyClosedFor'
  <2>1. bodyClosed' => bodyClosed \/ g \in {"reader", "parser", "handler"}
    BY DEF Returns
  <2>2. reader.timedOut => reader'.timedOut
    BY DEF Onward
  <2> QED BY <1>1, <2>1, <2>2 DEF Facts, BodyClosedFor
<1>5. ReaderFacts'
  BY <1>1, <1>2, ReaderFactsKept DEF Facts
<1>6. Stops' <=> Stops
  BY <1>1 DEF Stops
<1> QED BY <1>1, <1>2, <1>3, <1>4, <1>5, <1>6, FactsFrame

LEMMA FactsWrites ==
    ASSUME PipelineTypeOK, PipelineTypeOK', Onward, NEW took \in Cursors, Bounded(took), Facts(took),
           HandlerWrites
    PROVE  Facts(took)'
<1> USE GoroutineNames
<1>1. /\ UNCHANGED <<bodyClosed, reader, channel, leaving, running, saw>>
      /\ hold' = [hold EXCEPT !["handler"] = Tail(@)]
      /\ written' = Append(written, Head(hold["handler"]))
      /\ "handler" \in running /\ hold["handler"] # <<>>
  BY DEF HandlerWrites, readerVars
<1>2. hold["handler"] \in Seq(Items) /\ written \in Seq(Items)
  BY DEF PipelineTypeOK
<1>3. hold'["handler"] = Tail(hold["handler"]) /\ \A g \in Senders : hold'[g] = hold[g]
  BY <1>1 DEF PipelineTypeOK
<1>4. Emptied'
  BY <1>1, <1>3 DEF Facts, Emptied
<1>5. BodyClosedFor'
  BY <1>1 DEF Facts, BodyClosedFor
<1>6. \A g : Gone(g)' <=> Gone(g)
  BY <1>1 DEF Gone
<1>7. \A g \in Senders : Failing(g)' <=> Failing(g)
  BY <1>1, <1>3 DEF Failing
<1>8. ReaderFacts'
  BY <1>1, <1>3, <1>6, ReaderFactsKept DEF Facts
<1>9. Stops' <=> Stops
  BY <1>1, <1>2, <1>3, KindMoves DEF Stops
<1>10. \A i \in 1 .. Len(written) : \E j \in 1 .. Len(written') : written'[j].line = written[i].line
  <2>1. \A i \in 1 .. Len(written) : i \in 1 .. Len(written') /\ written'[i] = written[i]
    BY <1>1, <1>2
  <2> QED BY <2>1
<1> QED BY <1>1, <1>4, <1>5, <1>6, <1>7, <1>8, <1>9, <1>10, FactsFrame

LEMMA TakesChanges ==
    ASSUME PipelineTypeOK, Emptied, BodyClosedFor, NEW g \in Members(protocol) \ {"reader"}, Ready(g),
           NEW from, from = From(g),
           NEW items, NEW leaves, Takes(g, items, leaves)
    PROVE  /\ Emptied' /\ BodyClosedFor' /\ ~Gone(g)
           /\ \A h \in Goroutines \ {g} : Gone(h)' <=> Gone(h)
           /\ Gone(g)' => leaves
           /\ leaves => Gone(g)'
           /\ Failing(from) => NextItem(g).kind = "error" \/ Failing(from)'
           /\ Failing(from)' \/ NextItem(g).kind = "error" => Failing(from)
           /\ \A h \in Senders \ {from, g} : Failing(h)' <=> Failing(h)
           /\ g \in Senders => (Failing(g)' <=> HasKind(items, "error") \/ Failing(g))
           /\ hold' = [hold EXCEPT ![g] = items] /\ channel' = [channel EXCEPT ![from] = Tail(@)]
           /\ UNCHANGED <<protocol, sent, wire, scanned, reader, running, clientGone, written>>
<1> USE GoroutineNames
<1>1. /\ from \in Senders /\ from # g /\ g \in Goroutines /\ g \in running
      /\ hold[g] = <<>> /\ g \notin leaving
      /\ channel[from] \in Seq(Items) /\ channel[from] # <<>>
      /\ NextItem(g) = Head(channel[from])
  <2>1. from \in Senders /\ channel[from] \in Seq(Items) /\ channel[from] # <<>>
    BY Protocol, FromAnother, NextItemType
  <2>2. from # g
    BY DEF From
  <2>3. g \in Goroutines
    BY DEF Members
  <2> QED BY <2>1, <2>2, <2>3 DEF Ready, Idle, NextItem
<1>2. /\ hold' = [hold EXCEPT ![g] = items] /\ channel' = [channel EXCEPT ![from] = Tail(@)]
      /\ leaving' = IF leaves THEN leaving \cup {g} ELSE leaving
      /\ UNCHANGED <<protocol, sent, wire, scanned, bodyClosed, reader, running, clientGone, written>>
  BY DEF Takes, upstreamVars, readerVars
<1>3. /\ hold'[g] = items /\ \A h \in Goroutines \ {g} : hold'[h] = hold[h]
      /\ channel'[from] = Tail(channel[from])
      /\ \A h \in Senders \ {from} : channel'[h] = channel[h]
  BY <1>1, <1>2 DEF PipelineTypeOK
<1>4. Emptied'
  BY <1>1, <1>2, <1>3 DEF Emptied
<1>5. BodyClosedFor'
  BY <1>2 DEF BodyClosedFor
<1>6. /\ \A h \in Goroutines \ {g} : Gone(h)' <=> Gone(h)
      /\ ~Gone(g) /\ (Gone(g)' => leaves) /\ (leaves => Gone(g)')
  BY <1>1, <1>2 DEF Gone
<1>7. HasKind(channel[from], "error")
        <=> NextItem(g).kind = "error" \/ HasKind(channel'[from], "error")
  <2> DEFINE buf == channel[from]
  <2>1. /\ Head(buf) = buf[1] /\ 1 \in 1 .. Len(buf)
        /\ \A i \in 1 .. Len(Tail(buf)) : Tail(buf)[i] = buf[i + 1] /\ i + 1 \in 1 .. Len(buf)
        /\ \A i \in 1 .. Len(buf) : i = 1 \/ (i - 1 \in 1 .. Len(Tail(buf)) /\ Tail(buf)[i - 1] = buf[i])
    BY <1>1
  <2>2. HasKind(buf, "error") => buf[1].kind = "error" \/ HasKind(Tail(buf), "error")
    BY <2>1 DEF HasKind
  <2>3. HasKind(Tail(buf), "error") => HasKind(buf, "error")
    BY <2>1 DEF HasKind
  <2>4. buf[1].kind = "error" => HasKind(buf, "error")
    BY <2>1 DEF HasKind
  <2> QED BY <2>1, <2>2, <2>3, <2>4, <1>1, <1>3
<1>8. hold'[from] = hold[from]
  BY <1>1, <1>3
<1>9. /\ Failing(from) => NextItem(g).kind = "error" \/ Failing(from)'
      /\ Failing(from)' \/ NextItem(g).kind = "error" => Failing(from)
  <2>1. Failing(from)' <=> HasKind(hold[from], "error") \/ HasKind(channel'[from], "error")
    BY <1>8 DEF Failing
  <2> QED BY <2>1, <1>7 DEF Failing
<1>10. \A h \in Senders \ {from, g} : Failing(h)' <=> Failing(h)
  BY <1>3 DEF Failing
<1>11. g \in Senders => (Failing(g)' <=> HasKind(items, "error") \/ Failing(g))
  <2>1. ~HasKind(<<>>, "error")
    BY DEF HasKind
  <2> QED BY <2>1, <1>1, <1>3 DEF Failing
<1> QED BY <1>2, <1>4, <1>5, <1>6, <1>9, <1>10, <1>11

LEMMA LeavesChanges ==
    ASSUME PipelineTypeOK, Emptied, BodyClosedFor, NEW g \in Goroutines, g \in running,
           NEW items, Leaves(g, items), UNCHANGED readerVars
    PROVE  /\ Emptied' /\ BodyClosedFor'
           /\ \A h \in Goroutines : Gone(h)' <=> Gone(h) \/ h = g
           /\ \A h \in Senders \ {g} : Failing(h)' <=> Failing(h)
           /\ g \in Senders => (Failing(g)' <=> HasKind(items, "error") \/ HasKind(channel[g], "error"))
           /\ hold' = [hold EXCEPT ![g] = items]
           /\ UNCHANGED <<protocol, sent, wire, scanned, reader, running, channel, saw, clientGone, written>>
<1> USE GoroutineNames
<1>1. /\ hold' = [hold EXCEPT ![g] = items] /\ leaving' = leaving \cup {g}
      /\ UNCHANGED <<protocol, sent, wire, scanned, bodyClosed, reader, running, channel, saw,
                     clientGone, written>>
  BY DEF Leaves, upstreamVars, readerVars
<1>2. hold'[g] = items /\ \A h \in Goroutines \ {g} : hold'[h] = hold[h]
  BY <1>1 DEF PipelineTypeOK
<1>3. Emptied'
  BY <1>1, <1>2 DEF Emptied
<1>4. BodyClosedFor'
  BY <1>1 DEF BodyClosedFor
<1>5. \A h \in Goroutines : Gone(h)' <=> Gone(h) \/ h = g
  BY <1>1 DEF Gone
<1>6. /\ \A h \in Senders \ {g} : Failing(h)' <=> Failing(h)
      /\ g \in Senders => (Failing(g)' <=> HasKind(items, "error") \/ HasKind(channel[g], "error"))
  BY <1>1, <1>2 DEF Failing
<1> QED BY <1>1, <1>3, <1>4, <1>5, <1>6

LEMMA ErrorItem ==
    /\ HasKind(<<Item("error")>>, "error") /\ ~HasKind(<<>>, "error") /\ ~HasKind(<<>>, "stop")
    /\ HasKind(<<Item("stop")>>, "stop")
    /\ \A item, kind : HasKind(<<item>>, kind) <=> item.kind = kind
    /\ \A kind : HasKind(<<Item("finish"), Item("done")>>, kind) => kind \in {"finish", "done"}
BY DEF HasKind, Item

LEMMA FactsReader ==
    ASSUME PipelineTypeOK, PipelineTypeOK', Onward, NEW took \in Cursors, Bounded(took), Facts(took),
           ReaderStops \/ ReaderAbandons
    PROVE  Facts(took)'
<1> USE GoroutineNames
<1>1. PICK items \in {<<>>, <<Item("error")>>} :
        /\ Leaves("reader", items) /\ UNCHANGED readerVars /\ "reader" \in running
        /\ \A i \in 1 .. Len(channel["reader"]) : channel["reader"][i].kind # "error"
        /\ items # <<>> => reader.timedOut \/ wire = "broken" \/ "parser" \notin running \/ Gone("handler")
        /\ items = <<>> => (wire = "ended" /\ scanned = Len(sent)) \/ Gone("parser")
  <2>1. CASE ReaderStops
    <3> DEFINE items == IF bodyClosed \/ wire = "broken" \/ reader.timedOut THEN <<Item("error")>> ELSE <<>>
    <3>1. Leaves("reader", items) /\ UNCHANGED readerVars /\ Idle("reader")
      BY <2>1 DEF ReaderStops
    <3>2. "reader" \in running /\ ~Gone("reader")
      BY <3>1 DEF Idle, Gone
    <3>3. \A i \in 1 .. Len(channel["reader"]) : channel["reader"][i].kind # "error"
      BY <3>2 DEF Facts, ReaderFacts
    <3>4. bodyClosed => reader.timedOut \/ "parser" \notin running \/ Gone("handler")
      BY <3>2 DEF Facts, BodyClosedFor, Gone
    <3>5. items # <<>> => reader.timedOut \/ wire = "broken" \/ "parser" \notin running \/ Gone("handler")
      BY <3>4
    <3>6. items = <<>> => wire = "ended" /\ scanned = Len(sent)
      <4>1. <<Item("error")>> # <<>>
        OBVIOUS
      <4> QED BY <4>1, <2>1 DEF ReaderStops
    <3> QED BY <3>1, <3>2, <3>3, <3>5, <3>6
  <2>2. CASE ReaderAbandons
    <3>1. /\ Leaves("reader", <<>>) /\ UNCHANGED readerVars /\ "reader" \in running
          /\ hold["reader"] # <<>> /\ "parser" \notin running
      BY <2>2 DEF ReaderAbandons
    <3> QED BY <3>1 DEF Facts, ReaderFacts, Gone
  <2> QED BY <2>1, <2>2
<1>2. /\ Emptied' /\ BodyClosedFor' /\ Gone("reader")'
      /\ \A h \in Senders : Gone(h)' /\ h # "reader" => Gone(h)
      /\ \A h \in Goroutines \ {"reader"} : Gone(h)' <=> Gone(h)
      /\ \A h \in Senders \ {"reader"} : Failing(h)' <=> Failing(h)
      /\ Failing("reader")' <=> HasKind(items, "error") \/ HasKind(channel["reader"], "error")
      /\ hold' = [hold EXCEPT !["reader"] = items]
      /\ UNCHANGED <<protocol, sent, wire, scanned, reader, running, channel, saw, clientGone, written>>
  BY <1>1, LeavesChanges DEF Facts
<1>3. hold'["reader"] = items /\ hold'["handler"] = hold["handler"]
  BY <1>2 DEF PipelineTypeOK
<1>4. ReaderFacts'
  <2>1. Failing("reader")' <=> items # <<>>
    <3>1. ~HasKind(channel["reader"], "error")
      BY <1>1 DEF HasKind
    <3>2. HasKind(items, "error") <=> items # <<>>
      BY ErrorItem
    <3> QED BY <3>1, <3>2, <1>2
  <2>2. Len(hold'["reader"]) <= 1
    <3>1. CASE items = <<>>
      BY <3>1, <1>3
    <3>2. CASE items = <<Item("error")>>
      BY <3>2, <1>3
    <3> QED BY <3>1, <3>2
  <2>3. Failing("reader")' => reader'.timedOut \/ wire' = "broken" \/ "parser" \notin running' \/ Gone("handler")'
    BY <1>1, <1>2, <2>1
  <2>4. \/ Failing("reader")' \/ (wire' = "ended" /\ scanned' = Len(sent')) \/ Gone("parser")'
    BY <1>1, <1>2, <2>1
  <2>5. \A i \in 1 .. Len(channel'["reader"]) : channel'["reader"][i].kind # "error"
    BY <1>1, <1>2
  <2> QED BY <1>2, <2>2, <2>3, <2>4, <2>5 DEF ReaderFacts
<1>5. Stops' <=> Stops
  BY <1>2, <1>3 DEF Stops
<1>6. \A i \in 1 .. Len(written) : \E j \in 1 .. Len(written') : written'[j].line = written[i].line
  BY <1>2
<1>7. "guard" \notin running /\ channel["guard"] = <<>> => channel'["guard"] = <<>>
  BY <1>2
<1> QED BY <1>2, <1>4, <1>5, <1>6, <1>7, FactsFrame

-----------------------------------------------------------------------------
(* The parser *)

LEMMA AllLines ==
    ASSUME PipelineTypeOK, NEW g \in {"reader", "parser"}, NEW lo \in Nat, NEW hi \in Nat,
           lo <= hi, hi <= scanned, \A n \in Lines(g, sent) : ~(lo < n /\ n <= hi)
    PROVE  lo = hi
<1>1. Len(sent) \in Nat /\ hi <= Len(sent) /\ Lines(g, sent) = 1 .. Len(sent)
  BY Counters DEF Lines
<1>2. CASE lo < hi
  <2>1. hi \in 1 .. Len(sent)
    BY <1>1, <1>2
  <2> QED BY <2>1, <1>1, <1>2
<1> QED BY <1>2

\* A channel without lines has passed on all that was sent.
LEMMA PassedOn ==
    ASSUME PipelineTypeOK, NEW took \in Cursors, NEW gave \in Cursors, Flow(took, gave),
           NEW g \in Members(protocol) \ {"reader"},
           \A i \in 1 .. Len(channel[From(g)]) : channel[From(g)][i].line = 0
    PROVE  /\ took[g] \in Nat /\ gave[From(g)] \in Nat /\ took[g] <= gave[From(g)]
           /\ \A n \in Lines(From(g), sent) : ~(took[g] < n /\ n <= gave[From(g)])
<1>1. /\ From(g) \in Senders /\ From(g) \in Goroutines /\ g \in Goroutines
  BY Protocol, FromAnother, GoroutineNames DEF Members
<1>2. Linked(channel[From(g)], Lines(From(g), sent), took[g], gave[From(g)])
  BY DEF Flow
<1>3. 0 \notin Lines(From(g), sent)
  BY Counters, LinesType
<1> QED BY <1>1, <1>2, <1>3 DEF Linked, Carries, Cursors

\* And so has a goroutine that holds nothing.
LEMMA HoldsNothing ==
    ASSUME PipelineTypeOK, NEW took \in Cursors, NEW gave \in Cursors, Flow(took, gave),
           NEW g \in Members(protocol), hold[g] = <<>>, ~Abandoned(g)
    PROVE  /\ took[g] \in Nat /\ gave[g] \in Nat /\ gave[g] <= took[g]
           /\ \A n \in Lines(g, sent) : ~(gave[g] < n /\ n <= took[g])
<1>1. g \in Goroutines
  BY GoroutineNames DEF Members
<1>2. Carries(<<>>, Lines(g, sent), gave[g], took[g]) /\ gave[g] <= took[g]
  BY DEF Flow
<1>3. Lines(g, sent) \in SUBSET Nat
  BY Counters, LinesType
<1> QED BY <1>1, <1>2, <1>3, CarriesEmpty DEF Cursors

LEMMA ParserCaughtUp ==
    ASSUME PipelineTypeOK, NEW took \in Cursors, NEW gave \in Cursors, Flow(took, gave),
           "parser" \in running, hold["reader"] = <<>>,
           \A i \in 1 .. Len(channel["reader"]) : channel["reader"][i].line = 0
    PROVE  took["parser"] = scanned
<1>1. /\ "parser" \in Members(protocol) \ {"reader"} /\ "reader" \in Members(protocol)
      /\ From("parser") = "reader" /\ ~Abandoned("reader") /\ took["reader"] = scanned
  BY GoroutineNames DEF Members, From, Abandoned, Flow
<1>2. /\ took["parser"] \in Nat /\ gave["reader"] \in Nat /\ took["parser"] <= gave["reader"]
      /\ \A n \in Lines("reader", sent) : ~(took["parser"] < n /\ n <= gave["reader"])
  BY <1>1, PassedOn
<1>3. /\ gave["reader"] <= scanned
      /\ \A n \in Lines("reader", sent) : ~(gave["reader"] < n /\ n <= scanned)
  BY <1>1, HoldsNothing
<1>4. took["parser"] = gave["reader"]
  BY <1>2, <1>3, AllLines
<1>5. gave["reader"] = scanned
  <2>1. scanned \in Nat /\ scanned <= scanned
    BY Counters
  <2> QED BY <2>1, <1>2, <1>3, AllLines
<1> QED BY <1>4, <1>5

LEMMA GuardCaughtUp ==
    ASSUME PipelineTypeOK, NEW took \in Cursors, NEW gave \in Cursors, Flow(took, gave),
           protocol = "responses", channel["parser"] = <<>>, hold["parser"] = <<>>
    PROVE  took["guard"] = took["parser"]
<1>1. /\ "guard" \in Members(protocol) \ {"reader"} /\ "parser" \in Members(protocol)
      /\ From("guard") = "parser" /\ ~Abandoned("parser")
  BY GoroutineNames DEF Members, From, Abandoned
<1>2. /\ took["guard"] \in Nat /\ gave["parser"] \in Nat /\ took["guard"] <= gave["parser"]
      /\ \A n \in Lines("parser", sent) : ~(took["guard"] < n /\ n <= gave["parser"])
  BY <1>1, PassedOn
<1>3. /\ took["parser"] \in Nat /\ gave["parser"] <= took["parser"]
      /\ \A n \in Lines("parser", sent) : ~(gave["parser"] < n /\ n <= took["parser"])
  BY <1>1, HoldsNothing
<1>4. took["parser"] <= scanned /\ gave["parser"] <= scanned
  BY <1>1, CursorsBounded
<1> QED BY <1>2, <1>3, <1>4, AllLines

\* The parser and the guard take the lines one by one.
LEMMA NextLine ==
    ASSUME PipelineTypeOK, AllFaithful, NEW took \in Cursors, NEW gave \in Cursors, Flow(took, gave),
           NEW g \in {"parser", "guard"}, g \in Members(protocol), Ready(g),
           NEW next, next = Behind(NextItem(g), Lines(From(g), sent), took[g])
    PROVE  /\ NextItem(g) \in Items /\ took[g] \in Nat
           /\ NextItem(g).line = 0 => next = took[g]
           /\ NextItem(g).line # 0 =>
                 /\ NextItem(g).line \in 1 .. scanned /\ next = NextItem(g).line
                 /\ next = took[g] + 1
<1>1. /\ g \in Members(protocol) \ {"reader"} /\ From(g) \in {"reader", "parser"}
      /\ From(g) \in Goroutines /\ g \in Goroutines
  BY GoroutineNames DEF From, Members
<1>2. /\ NextItem(g) \in Items /\ NextItem(g).line \in Nat
      /\ channel[From(g)] \in Seq(Items) /\ channel[From(g)] # <<>>
      /\ NextItem(g) = Head(channel[From(g)])
  BY <1>1, NextItemType DEF NextItem, Items
<1>3. NextItem(g).line # 0 => NextItem(g).line \in 1 .. scanned
  BY <1>1, NextItemFaithful DEF Faithful
<1>4. /\ Lines(From(g), sent) = 1 .. Len(sent) /\ Lines(From(g), sent) \in SUBSET Nat
      /\ Len(sent) \in Nat /\ scanned \in Nat /\ scanned <= Len(sent)
  BY <1>1, Counters DEF Lines
<1>5. /\ took[g] \in Nat /\ gave[From(g)] \in Nat /\ took[g] <= gave[From(g)]
      /\ Carries(channel[From(g)], Lines(From(g), sent), took[g], gave[From(g)])
  BY <1>1 DEF Flow, Linked, Cursors
<1>6. /\ next \in Nat /\ took[g] <= next
      /\ Carries(<<NextItem(g)>>, Lines(From(g), sent), took[g], next)
  BY <1>2, <1>4, <1>5, CarriesTail
<1>7. NextItem(g).line = 0 => next = took[g]
  BY <1>4 DEF Behind
<1>8. ASSUME NextItem(g).line # 0
      PROVE  next = NextItem(g).line /\ next = took[g] + 1
  <2>1. NextItem(g).line \in Lines(From(g), sent) /\ next = NextItem(g).line
    BY <1>3, <1>4, <1>8 DEF Behind
  <2>2. took[g] < next
    BY <2>1, <1>6 DEF Carries
  <2>3. took[g] + 1 \in Lines(From(g), sent)
    BY <2>1, <2>2, <1>3, <1>4, <1>5, <1>8
  <2>4. \E i \in 1 .. Len(<<NextItem(g)>>) : <<NextItem(g)>>[i].line = took[g] + 1
    BY <2>2, <2>3, <1>5, <1>6 DEF Carries
  <2>5. NextItem(g).line = took[g] + 1
    BY <2>4
  <2> QED BY <2>1, <2>5
<1> QED BY <1>2, <1>3, <1>5, <1>7, <1>8

LEMMA FactsParserTakes ==
    ASSUME PipelineTypeOK, PipelineTypeOK', Onward, AllFaithful,
           NEW took \in Cursors, NEW gave \in Cursors, Flow(took, gave), Bounded(took), Facts(took),
           ParserTakes, NEW next, next = Behind(NextItem("parser"), Lines(From("parser"), sent), took["parser"])
    PROVE  Facts([took EXCEPT !["parser"] = next])'
<1> USE GoroutineNames
<1> DEFINE line == NextItem("parser")
           item == [line EXCEPT !.kind = Parsed(line.kind)]
           last == line.kind = "error" \/ (protocol = "chat" /\ line.kind # "data")
           took2 == [took EXCEPT !["parser"] = next]
<1>1. /\ "parser" \in Members(protocol) \ {"reader"} /\ Ready("parser") /\ From("parser") = "reader"
      /\ Takes("parser", <<item>>, last) /\ saw' = saw
  BY DEF ParserTakes, Members, From
<1>2. /\ line \in Items /\ took["parser"] \in Nat
      /\ line.line = 0 => next = took["parser"]
      /\ line.line # 0 => line.line \in 1 .. scanned /\ next = line.line /\ next = took["parser"] + 1
  BY <1>1, NextLine
<1>3. Faithful("reader", line, sent, scanned)
  BY <1>1, NextItemFaithful
<1>4. item.kind = Parsed(line.kind) /\ protocol \in {"chat", "responses"}
  BY <1>2, Protocol DEF Items, AllProtocols
<1>5. /\ line.line = 0 <=> line.kind = "error"
      /\ line.line # 0 => line.kind = sent[line.line] /\ line.kind \in LineKinds
  <2>1. line.line # 0 => line.kind = sent[line.line]
    BY <1>3 DEF Faithful
  <2>2. line.line # 0 => sent[line.line] \in LineKinds
    <3>1. sent \in Seq(LineKinds)
      BY DEF PipelineTypeOK
    <3> QED BY <3>1, <1>2, Counters
  <2>3. line.line = 0 => line.kind = "error"
    BY <1>3 DEF Faithful, Unnumbered
  <2> QED BY <2>1, <2>2, <2>3 DEF LineKinds
<1> HIDE DEF line, item, last
<1>6. /\ Emptied' /\ BodyClosedFor' /\ ~Gone("parser")
      /\ \A h \in Goroutines \ {"parser"} : Gone(h)' <=> Gone(h)
      /\ Gone("parser")' => last
      /\ last => Gone("parser")'
      /\ Failing("reader") => line.kind = "error" \/ Failing("reader")'
      /\ Failing("reader")' \/ line.kind = "error" => Failing("reader")
      /\ \A h \in Senders \ {"reader", "parser"} : Failing(h)' <=> Failing(h)
      /\ Failing("parser")' <=> HasKind(<<item>>, "error") \/ Failing("parser")
      /\ hold' = [hold EXCEPT !["parser"] = <<item>>]
      /\ channel' = [channel EXCEPT !["reader"] = Tail(@)]
      /\ UNCHANGED <<protocol, sent, wire, scanned, reader, running, clientGone, written>>
  BY <1>1, TakesChanges DEF Facts, line
<1>7. /\ hold'["reader"] = hold["reader"] /\ hold'["handler"] = hold["handler"]
      /\ channel'["reader"] = Tail(channel["reader"]) /\ channel'["guard"] = channel["guard"]
      /\ channel["reader"] \in Seq(Items) /\ channel["reader"] # <<>> /\ line = channel["reader"][1]
  <2>1. channel["reader"] \in Seq(Items) /\ channel["reader"] # <<>>
    BY <1>1, NextItemType
  <2>2. line = channel["reader"][1]
    BY <2>1, <1>1 DEF line, NextItem
  <2> QED BY <2>1, <2>2, <1>6 DEF PipelineTypeOK
\* An error of the reader is the last it sends.
<1>8. line.kind = "error" => Len(channel["reader"]) = 1 /\ hold["reader"] = <<>> /\ Gone("reader")
  <2>1. 1 \in 1 .. Len(channel["reader"])
    BY <1>7
  <2> QED BY <2>1, <1>7 DEF Facts, ReaderFacts
<1>9. ReaderFacts'
  <2>1. /\ Len(Tail(channel["reader"])) = Len(channel["reader"]) - 1 /\ Len(channel["reader"]) \in Nat
        /\ \A i \in 1 .. Len(Tail(channel["reader"])) :
              Tail(channel["reader"])[i] = channel["reader"][i + 1] /\ i + 1 \in 1 .. Len(channel["reader"])
    BY <1>7
  <2>2. \A i \in 1 .. Len(channel'["reader"]) :
           channel'["reader"][i].kind = "error" =>
              i = Len(channel'["reader"]) /\ hold'["reader"] = <<>> /\ Gone("reader")'
    BY <2>1, <1>6, <1>7 DEF Facts, ReaderFacts
  <2>3. Failing("reader")' => reader'.timedOut \/ wire' = "broken" \/ "parser" \notin running' \/ Gone("handler")'
    BY <1>6 DEF Facts, ReaderFacts
  <2>4. Gone("reader")' =>
           \/ Failing("reader")' \/ (wire' = "ended" /\ scanned' = Len(sent'))
           \/ Gone("parser")' \/ Gone("handler")'
    BY <1>6 DEF Facts, ReaderFacts, last
  <2>5. HasKind(hold'["reader"], "error") => Gone("reader")'
    BY <1>6, <1>7 DEF Facts, ReaderFacts
  <2>6. Len(hold'["reader"]) <= 1
    BY <1>7 DEF Facts, ReaderFacts
  <2> QED BY <2>2, <2>3, <2>4, <2>5, <2>6 DEF ReaderFacts
<1>10. /\ took2["parser"] = next /\ took2["guard"] = took["guard"] /\ took2 \in Cursors /\ next \in Nat
  <2>1. next \in Nat
    BY <1>2
  <2> QED BY <2>1 DEF Cursors
<1> HIDE DEF took2
<1>11. protocol = "chat" => \A n \in 1 .. took["parser"] : sent[n] = "data"
  BY <1>6 DEF Facts, ParserFacts
<1>12. ParserFacts(took2)'
  <2>1. ASSUME protocol = "chat", ~Gone("parser")'
        PROVE  \A n \in 1 .. next : sent[n] = "data"
    <3>1. line.kind = "data" /\ line.line # 0
      BY <2>1, <1>5, <1>6 DEF last
    <3>2. \A n \in 1 .. next : n \in 1 .. took["parser"] \/ n = line.line
      BY <3>1, <1>2
    <3> QED BY <2>1, <3>1, <3>2, <1>5, <1>11
  <2>2. ASSUME protocol = "chat", Gone("parser")'
        PROVE  Failing("parser")' \/ WholeAt(sent, next)
    <3>1. line.kind # "data"
      BY <2>2, <1>6 DEF last
    <3>2. CASE line.kind = "end"
      <4>1. line.line # 0 /\ sent[next] = "end" /\ next \in 1 .. next
        BY <3>2, <1>2, <1>5
      <4>2. \A n \in 1 .. next : n \in 1 .. took["parser"] \/ n = next
        BY <4>1, <1>2
      <4>3. Of("bad", sent, next) = {} /\ next \in Of("end", sent, next)
        BY <4>1, <4>2, <2>2, <1>11 DEF Of
      <4> QED BY <4>3 DEF WholeAt
    <3>3. CASE line.kind # "end"
      <4>1. item.kind = "error"
        BY <3>1, <3>3, <1>4 DEF Parsed
      <4> QED BY <4>1, <1>6, ErrorItem
    <3> QED BY <3>2, <3>3
  <2>3. ASSUME protocol = "responses", Gone("parser")'
        PROVE  Failing("parser")'
    <3>1. line.kind = "error"
      BY <2>3, <1>6 DEF last
    <3>2. item.kind = "error"
      BY <3>1, <1>4 DEF Parsed
    <3> QED BY <3>2, <1>6, ErrorItem
  <2>4. protocol' = protocol /\ sent' = sent
    BY <1>6
  <2> QED BY <2>1, <2>2, <2>3, <2>4, <1>10 DEF ParserFacts
<1>13. GuardFacts(took2)'
  <2>1. GuardFacts(took)'
    BY <1>1, <1>6, GuardFactsKept DEF Facts, Bounded
  <2> QED BY <2>1, <1>10 DEF GuardFacts
<1>14. AdapterFacts(took2)'
  <2>1. AdapterFacts(took)'
    BY <1>6, <1>7, AdapterFactsKept DEF Facts, Bounded
  <2> QED BY <2>1, <1>10 DEF AdapterFacts
<1>15. FailsFor("parser")'
  <2>1. ASSUME item.kind = "error"
        PROVE  Gone("handler") \/ Excused
    <3>1. CASE line.kind = "bad"
      <4>1. /\ line.line # 0 /\ next \in 1 .. scanned /\ next = took["parser"] + 1 /\ sent[next] = "bad"
        BY <3>1, <1>2, <1>5
      <4>2. next \in Of("bad", sent, scanned)
        BY <4>1 DEF Of
      <4>3. \A n \in 1 .. next : n \in 1 .. took["parser"] \/ n = next
        BY <4>1, <1>2
      <4>4. protocol = "chat" => Of("end", sent, next) = {}
        BY <4>1, <4>3, <1>11 DEF Of
      <4> QED BY <4>2, <4>4 DEF BadFirst, Excused
    <3>2. CASE line.kind = "error"
      <4>1. reader.timedOut \/ wire = "broken" \/ Gone("handler")
        <5>1. "parser" \in running
          BY <1>1 DEF Ready, Idle
        <5> QED BY <5>1, <3>2, <1>6 DEF Facts, ReaderFacts
      <4>2. \A i \in 1 .. Len(channel["reader"]) : channel["reader"][i].line = 0
        BY <3>2, <1>5, <1>7, <1>8
      <4>3. took["parser"] = scanned
        BY <3>2, <4>2, <1>1, <1>8, ParserCaughtUp DEF Ready, Idle
      <4>4. protocol = "chat" => Of("end", sent, scanned) = {}
        BY <4>3, <1>11 DEF Of
      <4> QED BY <3>2, <4>1, <4>4, <1>8 DEF Silent, Excused
    <3>3. line.kind \in {"bad", "error"}
      BY <2>1, <1>4, <1>5 DEF Parsed, LineKinds
    <3> QED BY <3>1, <3>2, <3>3
  <2>2. ASSUME Failing("parser")'
        PROVE  Gone("handler") \/ Excused
    <3>1. item.kind = "error" \/ Failing("parser")
      BY <2>2, <1>6, ErrorItem
    <3> QED BY <3>1, <2>1 DEF Facts, Errors, FailsFor
  <2>3. Excused => Excused'
    BY ExcusedKept
  <2> QED BY <2>2, <2>3, <1>6 DEF FailsFor
<1>16. Errors'
  <2>1. FailsFor("guard")' /\ FailsFor("adapter")'
    BY <1>6, FailsForKept DEF Facts, Errors
  <2> QED BY <2>1, <1>15 DEF Errors
<1>17. HandlerFacts'
  <2>1. Stops' <=> Stops
    BY <1>6, <1>7 DEF Stops
  <2>2. \A i \in 1 .. Len(written) : \E j \in 1 .. Len(written') : written'[j].line = written[i].line
    BY <1>6
  <2> QED BY <2>1, <2>2, <1>6, HandlerFactsKept DEF Facts
<1>18. Facts(took2)'
  BY <1>6, <1>9, <1>12, <1>13, <1>14, <1>16, <1>17 DEF Facts
<1> QED BY <1>18 DEF took2

LEMMA FactsParserLeaves ==
    ASSUME PipelineTypeOK, PipelineTypeOK', Onward,
           NEW took \in Cursors, NEW gave \in Cursors, Flow(took, gave), Bounded(took), Facts(took),
           ParserCancelled \/ ParserEnds
    PROVE  Facts(took)'
<1> USE GoroutineNames
<1>1. Idle("parser") /\ "parser" \in running /\ ~Gone("parser") /\ protocol \in {"chat", "responses"}
  BY Protocol DEF ParserCancelled, ParserEnds, Ended, Idle, Gone, AllProtocols
\* When the lines have ended without an error, upstream has.
<1>2. ASSUME ParserEnds
      PROVE  Gone("handler") \/ (Gone("reader") /\ wire = "ended" /\ took["parser"] = scanned)
  <2>1. channel["reader"] = <<>> /\ "reader" \notin running
    BY <1>2 DEF ParserEnds, Ended, From
  <2>2. hold["reader"] = <<>> /\ Gone("reader")
    BY <2>1 DEF Facts, Emptied, Gone
  <2>3. ~Failing("reader")
    BY <2>1, <2>2 DEF Failing, HasKind
  <2>4. took["parser"] = scanned
    BY <2>1, <2>2, <1>1, ParserCaughtUp
  <2> QED BY <2>2, <2>3, <2>4, <1>1 DEF Facts, ReaderFacts
<1>3. PICK items \in {<<>>, <<Item("error")>>} :
        /\ Leaves("parser", items) /\ UNCHANGED readerVars
        /\ protocol = "chat" \/ items # <<>> => HasKind(items, "error")
        /\ HasKind(items, "error") => Gone("handler") \/ Excused
        /\ HasKind(items, "error") \/ Gone("handler")
           \/ (Gone("reader") /\ wire = "ended" /\ took["parser"] = scanned)
  <2>1. CASE ParserCancelled
    <3>1. Leaves("parser", <<Item("error")>>) /\ UNCHANGED readerVars /\ (clientGone \/ Gone("handler"))
      BY <2>1 DEF ParserCancelled, ContextDone, Gone
    <3> QED BY <3>1, ErrorItem DEF Excused
  <2>2. CASE ParserEnds /\ protocol = "chat"
    <3>1. Leaves("parser", <<Item("error")>>) /\ UNCHANGED readerVars
      BY <2>2 DEF ParserEnds
    <3>2. \A n \in 1 .. took["parser"] : sent[n] = "data"
      BY <2>2, <1>1 DEF Facts, ParserFacts
    <3>3. Gone("handler") \/ Silent
      BY <2>2, <3>2, <1>2 DEF Silent, Of
    <3> QED BY <3>1, <3>3, ErrorItem DEF Excused
  <2>3. CASE ParserEnds /\ protocol = "responses"
    <3>1. Leaves("parser", <<>>) /\ UNCHANGED readerVars
      BY <2>3 DEF ParserEnds
    <3> QED BY <2>3, <3>1, <1>2, ErrorItem
  <2> QED BY <2>1, <2>2, <2>3, <1>1
<1>4. /\ Emptied' /\ BodyClosedFor'
      /\ \A h \in Goroutines : Gone(h)' <=> Gone(h) \/ h = "parser"
      /\ \A h \in Senders \ {"parser"} : Failing(h)' <=> Failing(h)
      /\ Failing("parser")' <=> HasKind(items, "error") \/ HasKind(channel["parser"], "error")
      /\ hold' = [hold EXCEPT !["parser"] = items]
      /\ UNCHANGED <<protocol, sent, wire, scanned, reader, running, channel, saw, clientGone, written>>
  BY <1>1, <1>3, LeavesChanges DEF Facts
<1>5. hold'["reader"] = hold["reader"] /\ hold'["handler"] = hold["handler"]
  BY <1>4 DEF PipelineTypeOK
<1>6. ReaderFacts'
  BY <1>4, <1>5, ReaderFactsKept DEF Facts
<1>7. ParserFacts(took)'
  <2>1. protocol = "chat" => Failing("parser")'
    BY <1>3, <1>4
  <2>2. protocol = "responses" =>
           \/ Failing("parser")' \/ (Gone("reader")' /\ wire' = "ended" /\ took["parser"] = scanned')
           \/ Gone("handler")'
    BY <1>3, <1>4
  <2> QED BY <2>1, <2>2, <1>4 DEF ParserFacts
<1>8. GuardFacts(took)'
  BY <1>4, GuardFactsKept DEF Facts, Bounded
<1>9. AdapterFacts(took)'
  BY <1>4, AdapterFactsKept DEF Facts, Bounded
<1>10. Errors'
  <2>1. FailsFor("guard")' /\ FailsFor("adapter")'
    BY <1>4, FailsForKept DEF Facts, Errors
  <2>2. Failing("parser")' => Gone("handler") \/ Excused
    <3>1. HasKind(channel["parser"], "error") => Failing("parser")
      BY DEF Failing
    <3> QED BY <3>1, <1>3, <1>4 DEF Facts, Errors, FailsFor
  <2>3. FailsFor("parser")'
    BY <2>2, <1>4, ExcusedKept DEF FailsFor
  <2> QED BY <2>1, <2>3 DEF Errors
<1>11. HandlerFacts'
  <2>1. Stops' <=> Stops
    BY <1>4, <1>5 DEF Stops
  <2>2. \A i \in 1 .. Len(written) : \E j \in 1 .. Len(written') : written'[j].line = written[i].line
    BY <1>4
  <2> QED BY <2>1, <2>2, <1>4, HandlerFactsKept DEF Facts
<1> QED BY <1>4, <1>6, <1>7, <1>8, <1>9, <1>10, <1>11 DEF Facts

-----------------------------------------------------------------------------
(* The guard and the adapter *)

LEMMA ResponsesOnly ==
    ASSUME PipelineTypeOK, NEW g \in {"guard", "adapter"}, g \in running
    PROVE  /\ protocol = "responses" /\ g \in Members(protocol) \ {"reader"}
           /\ "guard" \in Members(protocol)
BY Protocol, GoroutineNames DEF PipelineTypeOK, Members, AllProtocols

LEMMA FactsGuardTakes ==
    ASSUME PipelineTypeOK, PipelineTypeOK', Onward, AllFaithful,
           NEW took \in Cursors, NEW gave \in Cursors, Flow(took, gave), Bounded(took), Facts(took),
           GuardTakes, NEW next, next = Behind(NextItem("guard"), Lines(From("guard"), sent), took["guard"])
    PROVE  Facts([took EXCEPT !["guard"] = next])'
<1> USE GoroutineNames
<1> DEFINE chunk == NextItem("guard")
           took2 == [took EXCEPT !["guard"] = next]
<1>1. /\ "guard" \in Members(protocol) \ {"reader"} /\ Ready("guard") /\ From("guard") = "parser"
      /\ Takes("guard", <<chunk>>, FALSE) /\ protocol = "responses" /\ "guard" \in running
      /\ saw' = saw \cup (IF chunk.kind = "done" THEN {"terminal"}
                          ELSE IF chunk.kind = "error" THEN {"failed"} ELSE {})
  <2>1. "guard" \in running
    BY DEF GuardTakes, Ready, Idle
  <2> QED BY <2>1, ResponsesOnly DEF GuardTakes, From
<1>2. /\ chunk \in Items /\ took["guard"] \in Nat
      /\ chunk.line = 0 => next = took["guard"]
      /\ chunk.line # 0 => chunk.line \in 1 .. scanned /\ next = chunk.line /\ next = took["guard"] + 1
  BY <1>1, NextLine
<1>3. /\ chunk.line = 0 => chunk.kind = "error"
      /\ chunk.line # 0 => chunk.kind = Parsed(sent[chunk.line])
  <2>1. Faithful("parser", chunk, sent, scanned)
    BY <1>1, NextItemFaithful
  <2> QED BY <2>1 DEF Faithful, Unnumbered
<1> HIDE DEF chunk
<1>4. /\ Emptied' /\ BodyClosedFor' /\ ~Gone("guard")
      /\ \A h \in Goroutines \ {"guard"} : Gone(h)' <=> Gone(h)
      /\ ~Gone("guard")'
      /\ Failing("parser") => chunk.kind = "error" \/ Failing("parser")'
      /\ Failing("parser")' \/ chunk.kind = "error" => Failing("parser")
      /\ \A h \in Senders \ {"parser", "guard"} : Failing(h)' <=> Failing(h)
      /\ Failing("guard")' <=> HasKind(<<chunk>>, "error") \/ Failing("guard")
      /\ hold' = [hold EXCEPT !["guard"] = <<chunk>>]
      /\ channel' = [channel EXCEPT !["parser"] = Tail(@)]
      /\ UNCHANGED <<protocol, sent, wire, scanned, reader, running, clientGone, written>>
  BY <1>1, TakesChanges DEF Facts, chunk
<1>5. /\ hold'["reader"] = hold["reader"] /\ hold'["handler"] = hold["handler"]
      /\ channel'["reader"] = channel["reader"] /\ channel'["guard"] = channel["guard"]
  BY <1>4 DEF PipelineTypeOK
<1>6. took2["parser"] = took["parser"] /\ took2["guard"] = next
  BY DEF Cursors
<1> HIDE DEF took2
<1>7. ReaderFacts'
  BY <1>4, <1>5, ReaderFactsKept DEF Facts
<1>8. ParserFacts(took2)'
  <2>1. Failing("parser") => Failing("parser")' \/ (protocol = "responses" /\ "failed" \in saw')
    BY <1>1, <1>4
  <2>2. "failed" \in saw => "failed" \in saw'
    BY <1>1
  <2>3. ParserFacts(took)'
    BY <2>1, <2>2, <1>4, ParserFactsKept DEF Facts, Bounded
  <2> QED BY <2>3, <1>6 DEF ParserFacts
<1>9. GuardFacts(took2)'
  <2>1. \A n \in 1 .. next : n \in 1 .. took["guard"] \/ (chunk.line # 0 /\ n = chunk.line)
    BY <1>2
  <2>2. \A n \in 1 .. took["guard"] : n \in 1 .. next
    BY <1>2
  <2>3. chunk.line # 0 => chunk.line \in 1 .. next
    BY <1>2
  <2>4. chunk.kind = "done" => chunk.line # 0 /\ sent[chunk.line] = "end"
    BY <1>3 DEF Parsed
  <2>5. chunk.kind # "done" => Of("end", sent, next) = Of("end", sent, took["guard"])
    BY <2>1, <2>2, <1>3 DEF Of, Parsed
  <2>6. chunk.kind = "done" => Of("end", sent, next) # {}
    BY <2>3, <2>4 DEF Of
  <2>7. "terminal" \in saw' <=> Of("end", sent, next) # {}
    BY <2>5, <2>6, <1>1 DEF Facts, GuardFacts
  <2>8. "failed" \notin saw' => Of("bad", sent, next) = {}
    <3> SUFFICES ASSUME "failed" \notin saw'
                 PROVE  Of("bad", sent, next) = {}
      OBVIOUS
    <3>1. chunk.kind # "error" /\ "failed" \notin saw
      BY <1>1
    <3>2. chunk.line # 0 => sent[chunk.line] # "bad"
      BY <3>1, <1>3 DEF Parsed
    <3>3. Of("bad", sent, took["guard"]) = {}
      BY <3>1, <1>1 DEF Facts, GuardFacts
    <3> QED BY <3>2, <3>3, <2>1 DEF Of
  <2>9. "failed" \in saw' => Failing("guard")' \/ Gone("adapter")'
    BY <1>1, <1>4, ErrorItem DEF Facts, GuardFacts
  <2> QED BY <2>7, <2>8, <2>9, <1>4, <1>6 DEF GuardFacts
<1>10. AdapterFacts(took2)'
  BY <1>1, <1>4 DEF Facts, AdapterFacts
<1>11. Errors'
  <2>1. FailsFor("parser")' /\ FailsFor("adapter")'
    BY <1>4, FailsForKept DEF Facts, Errors
  <2>2. Failing("guard")' => Gone("handler") \/ Excused
    BY <1>4, ErrorItem DEF Facts, Errors, FailsFor
  <2>3. FailsFor("guard")'
    BY <2>2, <1>4, ExcusedKept DEF FailsFor
  <2> QED BY <2>1, <2>3 DEF Errors
<1>12. HandlerFacts'
  <2>1. Stops' <=> Stops
    BY <1>4, <1>5 DEF Stops
  <2>2. \A i \in 1 .. Len(written) : \E j \in 1 .. Len(written') : written'[j].line = written[i].line
    BY <1>4
  <2> QED BY <2>1, <2>2, <1>4, HandlerFactsKept DEF Facts
<1>13. Facts(took2)'
  BY <1>4, <1>7, <1>8, <1>9, <1>10, <1>11, <1>12 DEF Facts
<1> QED BY <1>13 DEF took2

LEMMA FactsGuardEnds ==
    ASSUME PipelineTypeOK, PipelineTypeOK', Onward,
           NEW took \in Cursors, NEW gave \in Cursors, Flow(took, gave), Bounded(took), Facts(took),
           GuardEnds
    PROVE  Facts(took)'
<1> USE GoroutineNames
<1>1. /\ "guard" \in running /\ ~Gone("guard") /\ protocol = "responses"
      /\ "parser" \notin running /\ Gone("parser")
      /\ channel["parser"] = <<>> /\ hold["parser"] = <<>>
  <2>1. "guard" \in running /\ ~Gone("guard") /\ channel["parser"] = <<>> /\ "parser" \notin running
    BY DEF GuardEnds, Ended, Idle, From, Gone
  <2> QED BY <2>1, ResponsesOnly DEF Facts, Emptied, Gone
\* Nothing was noted, so upstream ended its body without an end.
<1>2. ASSUME saw = {}
      PROVE  Gone("handler") \/ Excused
  <2>1. ~Failing("parser")
    BY <1>1 DEF Failing, HasKind
  <2>2. Gone("handler") \/ (Gone("reader") /\ wire = "ended" /\ took["parser"] = scanned)
    BY <2>1, <1>1, <1>2 DEF Facts, ParserFacts
  <2>3. took["guard"] = took["parser"]
    BY <1>1, GuardCaughtUp
  <2>4. Of("end", sent, took["guard"]) = {}
    BY <1>1, <1>2 DEF Facts, GuardFacts
  <2>5. took["parser"] = scanned => Of("end", sent, scanned) = {}
    BY <2>3, <2>4
  <2>6. Gone("handler") \/ Silent
    BY <2>2, <2>5, <1>1 DEF Silent
  <2> QED BY <2>6 DEF Excused
<1>3. PICK items \in {<<>>, <<Item("error")>>} :
        /\ Leaves("guard", items) /\ UNCHANGED readerVars
        /\ HasKind(items, "error") <=> saw = {}
  <2>1. CASE saw = {}
    <3>1. Leaves("guard", <<Item("error")>>) /\ UNCHANGED readerVars
      BY <2>1 DEF GuardEnds
    <3> QED BY <2>1, <3>1, ErrorItem
  <2>2. CASE saw # {}
    <3>1. Leaves("guard", <<>>) /\ UNCHANGED readerVars
      BY <2>2 DEF GuardEnds
    <3> QED BY <2>2, <3>1, ErrorItem
  <2> QED BY <2>1, <2>2
<1>4. /\ Emptied' /\ BodyClosedFor'
      /\ \A h \in Goroutines : Gone(h)' <=> Gone(h) \/ h = "guard"
      /\ \A h \in Senders \ {"guard"} : Failing(h)' <=> Failing(h)
      /\ Failing("guard")' <=> HasKind(items, "error") \/ HasKind(channel["guard"], "error")
      /\ hold' = [hold EXCEPT !["guard"] = items]
      /\ UNCHANGED <<protocol, sent, wire, scanned, reader, running, channel, saw, clientGone, written>>
  BY <1>1, <1>3, LeavesChanges DEF Facts
<1>5. /\ hold'["reader"] = hold["reader"] /\ hold'["handler"] = hold["handler"]
      /\ hold["guard"] = <<>>
  BY <1>4 DEF PipelineTypeOK, GuardEnds, Ended, Idle
<1>6. Failing("guard") <=> HasKind(channel["guard"], "error")
  BY <1>5, ErrorItem DEF Failing
<1>7. ReaderFacts'
  BY <1>4, <1>5, ReaderFactsKept DEF Facts
<1>8. ParserFacts(took)'
  BY <1>4, ParserFactsKept DEF Facts, Bounded
<1>9. GuardFacts(took)'
  BY <1>1, <1>3, <1>4, <1>6 DEF Facts, GuardFacts
<1>10. AdapterFacts(took)'
  BY <1>4, AdapterFactsKept DEF Facts, Bounded
<1>11. Errors'
  <2>1. FailsFor("parser")' /\ FailsFor("adapter")'
    BY <1>4, FailsForKept DEF Facts, Errors
  <2>2. Failing("guard")' => Gone("handler") \/ Excused
    BY <1>2, <1>3, <1>4, <1>6 DEF Facts, Errors, FailsFor
  <2>3. FailsFor("guard")'
    BY <2>2, <1>4, ExcusedKept DEF FailsFor
  <2> QED BY <2>1, <2>3 DEF Errors
<1>12. HandlerFacts'
  <2>1. Stops' <=> Stops
    BY <1>4, <1>5 DEF Stops
  <2>2. \A i \in 1 .. Len(written) : \E j \in 1 .. Len(written') : written'[j].line = written[i].line
    BY <1>4
  <2> QED BY <2>1, <2>2, <1>4, HandlerFactsKept DEF Facts
<1> QED BY <1>4, <1>7, <1>8, <1>9, <1>10, <1>11, <1>12 DEF Facts

LEMMA FactsAdapterTakes ==
    ASSUME PipelineTypeOK, PipelineTypeOK', Onward,
           NEW took \in Cursors, Bounded(took), Facts(took), AdapterTakes
    PROVE  Facts(took)'
<1> USE GoroutineNames
<1> DEFINE chunk == NextItem("adapter")
           items == IF chunk.kind = "done" THEN <<Item("finish"), Item("done")>> ELSE <<chunk>>
           fails == chunk.kind = "error"
<1>1. /\ "adapter" \in Members(protocol) \ {"reader"} /\ Ready("adapter") /\ From("adapter") = "guard"
      /\ Takes("adapter", items, fails) /\ saw' = saw
      /\ protocol = "responses" /\ "adapter" \in running
  <2>1. "adapter" \in running
    BY DEF AdapterTakes, Ready, Idle
  <2> QED BY <2>1, ResponsesOnly DEF AdapterTakes, From
<1>2. HasKind(items, "error") <=> fails
  BY ErrorItem
<1> HIDE DEF chunk, items, fails
<1>3. /\ Emptied' /\ BodyClosedFor' /\ ~Gone("adapter")
      /\ \A h \in Goroutines \ {"adapter"} : Gone(h)' <=> Gone(h)
      /\ Gone("adapter")' => fails
      /\ fails => Gone("adapter")'
      /\ Failing("guard") => fails \/ Failing("guard")'
      /\ Failing("guard")' \/ fails => Failing("guard")
      /\ \A h \in Senders \ {"guard", "adapter"} : Failing(h)' <=> Failing(h)
      /\ Failing("adapter")' <=> HasKind(items, "error") \/ Failing("adapter")
      /\ hold' = [hold EXCEPT !["adapter"] = items]
      /\ channel' = [channel EXCEPT !["guard"] = Tail(@)]
      /\ UNCHANGED <<protocol, sent, wire, scanned, reader, running, clientGone, written>>
  <2>1. /\ Emptied /\ BodyClosedFor /\ "adapter" \in Senders
        /\ Senders \ {"guard", "adapter"} = {"reader", "parser"}
    BY DEF Facts
  <2>2. NextItem("adapter").kind = "error" <=> fails
    BY DEF chunk, fails
  <2> QED BY <2>1, <2>2, <1>1, TakesChanges
<1>4. /\ hold'["reader"] = hold["reader"] /\ hold'["handler"] = hold["handler"]
      /\ channel'["reader"] = channel["reader"]
  BY <1>3 DEF PipelineTypeOK
<1>5. ReaderFacts'
  BY <1>3, <1>4, ReaderFactsKept DEF Facts
<1>6. ParserFacts(took)'
  BY <1>1, <1>3, ParserFactsKept DEF Facts, Bounded
<1>7. GuardFacts(took)'
  BY <1>1, <1>3, GuardFactsKept DEF Facts, Bounded
<1>8. AdapterFacts(took)'
  BY <1>2, <1>3 DEF AdapterFacts
<1>9. Errors'
  <2>1. FailsFor("parser")' /\ FailsFor("guard")'
    BY <1>3, FailsForKept DEF Facts, Errors
  <2>2. Failing("adapter")' => Gone("handler") \/ Excused
    BY <1>2, <1>3 DEF Facts, Errors, FailsFor
  <2>3. FailsFor("adapter")'
    BY <2>2, <1>3, ExcusedKept DEF FailsFor
  <2> QED BY <2>1, <2>3 DEF Errors
<1>10. HandlerFacts'
  <2>1. Stops' <=> Stops
    BY <1>3, <1>4 DEF Stops
  <2>2. \A i \in 1 .. Len(written) : \E j \in 1 .. Len(written') : written'[j].line = written[i].line
    BY <1>3
  <2> QED BY <2>1, <2>2, <1>3, HandlerFactsKept DEF Facts
<1> QED BY <1>3, <1>5, <1>6, <1>7, <1>8, <1>9, <1>10 DEF Facts

LEMMA FactsAdapterEnds ==
    ASSUME PipelineTypeOK, PipelineTypeOK', Onward,
           NEW took \in Cursors, Bounded(took), Facts(took), AdapterEnds
    PROVE  Facts(took)'
<1> USE GoroutineNames
<1>1. /\ "adapter" \in running /\ ~Gone("adapter") /\ hold["adapter"] = <<>> /\ protocol = "responses"
      /\ "guard" \notin running /\ Gone("guard")
      /\ channel["guard"] = <<>> /\ hold["guard"] = <<>>
      /\ Leaves("adapter", <<>>) /\ UNCHANGED readerVars
  <2>1. /\ "adapter" \in running /\ ~Gone("adapter") /\ hold["adapter"] = <<>>
        /\ channel["guard"] = <<>> /\ "guard" \notin running
        /\ Leaves("adapter", <<>>) /\ UNCHANGED readerVars
    BY DEF AdapterEnds, Ended, Idle, From, Gone
  <2> QED BY <2>1, ResponsesOnly DEF Facts, Emptied, Gone
\* The guard ended without an error: it has seen the end and no failure.
<1>2. WholeAt(sent, took["guard"])
  <2>1. ~Failing("guard")
    BY <1>1 DEF Failing, HasKind
  <2>2. "failed" \notin saw /\ saw # {}
    BY <2>1, <1>1 DEF Facts, GuardFacts
  <2>3. "terminal" \in saw
    BY <2>2 DEF PipelineTypeOK
  <2>4. Of("end", sent, took["guard"]) # {} /\ Of("bad", sent, took["guard"]) = {}
    BY <2>2, <2>3, <1>1 DEF Facts, GuardFacts
  <2>5. took["guard"] \in Nat
    BY DEF Cursors
  <2>6. PICK end \in Of("end", sent, took["guard"]) : TRUE
    BY <2>4
  <2>7. \A n \in 1 .. end : n \in 1 .. took["guard"]
    BY <2>5, <2>6 DEF Of
  <2>8. Of("bad", sent, end) = {}
    BY <2>4, <2>7 DEF Of
  <2> QED BY <2>8 DEF WholeAt
<1>3. /\ Emptied' /\ BodyClosedFor'
      /\ \A h \in Goroutines : Gone(h)' <=> Gone(h) \/ h = "adapter"
      /\ \A h \in Senders \ {"adapter"} : Failing(h)' <=> Failing(h)
      /\ Failing("adapter")' <=> HasKind(<<>>, "error") \/ HasKind(channel["adapter"], "error")
      /\ hold' = [hold EXCEPT !["adapter"] = <<>>]
      /\ UNCHANGED <<protocol, sent, wire, scanned, reader, running, channel, saw, clientGone, written>>
  BY <1>1, LeavesChanges DEF Facts
<1>4. hold'["reader"] = hold["reader"] /\ hold'["handler"] = hold["handler"]
  BY <1>3 DEF PipelineTypeOK
<1>5. Failing("adapter")' <=> Failing("adapter")
  BY <1>1, <1>3 DEF Failing
<1>6. ReaderFacts'
  BY <1>3, <1>4, ReaderFactsKept DEF Facts
<1>7. ParserFacts(took)'
  BY <1>3, ParserFactsKept DEF Facts, Bounded
<1>8. GuardFacts(took)'
  BY <1>3, GuardFactsKept DEF Facts, Bounded
<1>9. AdapterFacts(took)'
  BY <1>1, <1>2, <1>3 DEF AdapterFacts
<1>10. Errors'
  <2>1. \A h \in {"parser", "guard", "adapter"} : FailsFor(h)'
    BY <1>3, <1>5, FailsForKept DEF Facts, Errors
  <2> QED BY <2>1 DEF Errors
<1>11. HandlerFacts'
  <2>1. Stops' <=> Stops
    BY <1>3, <1>4 DEF Stops
  <2>2. \A i \in 1 .. Len(written) : \E j \in 1 .. Len(written') : written'[j].line = written[i].line
    BY <1>3
  <2> QED BY <2>1, <2>2, <1>3, HandlerFactsKept DEF Facts
<1> QED BY <1>3, <1>6, <1>7, <1>8, <1>9, <1>10, <1>11 DEF Facts

-----------------------------------------------------------------------------
(* The handler *)

\* What has left a goroutine before the handler, all the way to the client.
LEMMA WrittenToChat ==
    ASSUME PipelineTypeOK, NEW took \in Cursors, NEW gave \in Cursors, Flow(took, gave),
           "handler" \in running, Idle("handler"), protocol = "chat",
           channel["parser"] = <<>>, hold["parser"] = <<>>,
           NEW n \in Lines("handler", sent), n <= took["parser"]
    PROVE  \E i \in 1 .. Len(written) : written[i].line = n
<1> USE GoroutineNames
<1>1. /\ "handler" \in Members(protocol) \ {"reader"} /\ "parser" \in Members(protocol)
      /\ From("handler") = "parser" /\ ~Abandoned("parser")
  BY DEF Members, From, Abandoned
<1>2. n \in Lines("parser", sent) /\ n \in Nat /\ 0 < n
  BY Counters DEF Lines
<1>3. /\ took["parser"] \in Nat /\ gave["parser"] \in Nat
      /\ \A m \in Lines("parser", sent) : ~(gave["parser"] < m /\ m <= took["parser"])
  BY <1>1, HoldsNothing
<1>4. n <= gave["parser"]
  BY <1>2, <1>3
<1>5. /\ took["handler"] \in Nat
      /\ \A m \in Lines("parser", sent) : ~(took["handler"] < m /\ m <= gave["parser"])
  BY <1>1, PassedOn
<1>6. n <= took["handler"]
  BY <1>2, <1>3, <1>4, <1>5
<1>7. \A m \in Lines("handler", sent) : ~(gave["handler"] < m /\ m <= took["handler"])
  BY <1>1, IdleGaveAll
<1>8. gave["handler"] \in Nat /\ Carries(written, Lines("handler", sent), 0, gave["handler"])
  BY DEF Flow, Cursors
<1>9. n <= gave["handler"]
  BY <1>2, <1>6, <1>7, <1>8, <1>5
<1> QED BY <1>2, <1>8, <1>9 DEF Carries

LEMMA WrittenToResponses ==
    ASSUME PipelineTypeOK, NEW took \in Cursors, NEW gave \in Cursors, Flow(took, gave),
           "handler" \in running, Idle("handler"), protocol = "responses",
           channel["guard"] = <<>>, hold["guard"] = <<>>,
           channel["adapter"] = <<>>, hold["adapter"] = <<>>,
           NEW n \in Lines("handler", sent), n <= took["guard"]
    PROVE  \E i \in 1 .. Len(written) : written[i].line = n
<1> USE GoroutineNames
<1>1. /\ "handler" \in Members(protocol) \ {"reader"} /\ "adapter" \in Members(protocol) \ {"reader"}
      /\ "guard" \in Members(protocol) /\ From("handler") = "adapter" /\ From("adapter") = "guard"
      /\ ~Abandoned("guard") /\ ~Abandoned("adapter")
  BY DEF Members, From, Abandoned
<1>2. n \in Lines("guard", sent) /\ n \in Lines("adapter", sent) /\ n \in Nat /\ 0 < n
  BY Counters DEF Lines
<1>3. /\ took["guard"] \in Nat /\ gave["guard"] \in Nat
      /\ \A m \in Lines("guard", sent) : ~(gave["guard"] < m /\ m <= took["guard"])
  BY <1>1, HoldsNothing
<1>4. n <= gave["guard"]
  BY <1>2, <1>3
<1>5. /\ took["adapter"] \in Nat
      /\ \A m \in Lines("guard", sent) : ~(took["adapter"] < m /\ m <= gave["guard"])
  BY <1>1, PassedOn
<1>6. n <= took["adapter"]
  BY <1>2, <1>3, <1>4, <1>5
<1>7. /\ gave["adapter"] \in Nat
      /\ \A m \in Lines("adapter", sent) : ~(gave["adapter"] < m /\ m <= took["adapter"])
  BY <1>1, HoldsNothing
<1>8. n <= gave["adapter"]
  BY <1>2, <1>5, <1>6, <1>7
<1>9. /\ took["handler"] \in Nat
      /\ \A m \in Lines("adapter", sent) : ~(took["handler"] < m /\ m <= gave["adapter"])
  BY <1>1, PassedOn
<1>10. n <= took["handler"]
  BY <1>2, <1>7, <1>8, <1>9
<1>11. \A m \in Lines("handler", sent) : ~(gave["handler"] < m /\ m <= took["handler"])
  BY <1>1, IdleGaveAll
<1>12. gave["handler"] \in Nat /\ Carries(written, Lines("handler", sent), 0, gave["handler"])
  BY DEF Flow, Cursors
<1>13. n <= gave["handler"]
  BY <1>2, <1>9, <1>10, <1>11, <1>12
<1> QED BY <1>2, <1>12, <1>13 DEF Carries

LEMMA WholeIsWritten ==
    ASSUME PipelineTypeOK, NEW last \in Nat, last <= scanned, WholeAt(sent, last),
           \A n \in Lines("handler", sent) : n <= last => \E i \in 1 .. Len(written) : written[i].line = n
    PROVE  Complete(sent, scanned, written)
<1>1. PICK end \in Of("end", sent, last) : Of("bad", sent, end) = {}
  BY DEF WholeAt
<1>2. end \in Nat /\ end <= last /\ end \in Of("end", sent, scanned)
  BY Counters DEF Of
<1>3. ASSUME NEW n \in Of("data", sent, end)
      PROVE  \E i \in 1 .. Len(written) : written[i].line = n
  <2>1. n \in Lines("handler", sent) /\ n <= last
    BY <1>2, Counters DEF Of, Lines
  <2> QED BY <2>1
<1> QED BY <1>1, <1>2, <1>3 DEF Complete

LEMMA FactsHandlerTakes ==
    ASSUME PipelineTypeOK, PipelineTypeOK', Onward, AllFaithful,
           NEW took \in Cursors, Bounded(took), Facts(took), HandlerTakes
    PROVE  Facts(took)'
<1> USE GoroutineNames
<1> DEFINE chunk == NextItem("handler")
           items == IF chunk.kind \in {"error", "done"} THEN <<>> ELSE <<chunk>>
           fails == chunk.kind = "error"
<1>0. PICK from \in {"parser", "adapter"} :
        from = From("handler") /\ (from = "parser" <=> protocol = "chat")
  BY DEF From
<1>1. /\ "handler" \in Members(protocol) \ {"reader"} /\ Ready("handler")
      /\ Takes("handler", items, fails) /\ saw' = saw
  BY DEF HandlerTakes, Members
<1>2. /\ HasKind(items, "stop") <=> FALSE
      /\ protocol \in {"chat", "responses"}
  <2>1. Faithful(From("handler"), chunk, sent, scanned)
    BY <1>1, NextItemFaithful
  <2>2. chunk.kind # "stop"
    BY <2>1, <1>0 DEF Faithful, Unnumbered, Parsed
  <2> HIDE DEF chunk
  <2>3. ~HasKind(items, "stop")
    BY <2>2, ErrorItem
  <2> QED BY <2>3, Protocol DEF AllProtocols
<1> HIDE DEF chunk, items, fails
<1>3. /\ Emptied' /\ BodyClosedFor' /\ ~Gone("handler")
      /\ \A h \in Goroutines \ {"handler"} : Gone(h)' <=> Gone(h)
      /\ Gone("handler")' => fails
      /\ fails => Gone("handler")'
      /\ Failing(from) => fails \/ Failing(from)'
      /\ Failing(from)' \/ fails => Failing(from)
      /\ \A h \in Senders \ {from, "handler"} : Failing(h)' <=> Failing(h)
      /\ hold' = [hold EXCEPT !["handler"] = items]
      /\ channel' = [channel EXCEPT ![from] = Tail(@)]
      /\ UNCHANGED <<protocol, sent, wire, scanned, reader, running, clientGone, written>>
  <2>1. Emptied /\ BodyClosedFor
    BY DEF Facts
  <2>2. NextItem("handler").kind = "error" <=> fails
    BY DEF chunk, fails
  <2> QED BY <2>1, <2>2, <1>0, <1>1, TakesChanges
<1>4. /\ hold'["reader"] = hold["reader"] /\ hold'["handler"] = items /\ hold["handler"] = <<>>
      /\ channel'["reader"] = channel["reader"] /\ channel'["guard"] = channel["guard"]
  <2>1. hold["handler"] = <<>>
    BY <1>1 DEF Ready, Idle
  <2> QED BY <2>1, <1>0, <1>3 DEF PipelineTypeOK
<1>5. ReaderFacts'
  BY <1>3, <1>4, ReaderFactsKept DEF Facts
<1>6. \A h \in {"parser", "guard", "adapter"} :
         /\ Failing(h)' => Failing(h)
         /\ Failing(h) => Failing(h)' \/ Gone("handler")'
         /\ h # from => (Failing(h)' <=> Failing(h))
  BY <1>0, <1>3
<1>7. ParserFacts(took)'
  BY <1>1, <1>3, <1>6, ParserFactsKept DEF Facts, Bounded
<1>8. GuardFacts(took)'
  BY <1>0, <1>1, <1>3, <1>6, GuardFactsKept DEF Facts, Bounded
<1>9. AdapterFacts(took)'
  BY <1>3, <1>4, <1>6, AdapterFactsKept DEF Facts, Bounded
<1>10. Errors'
  <2>1. \A h \in {"parser", "guard", "adapter"} : FailsFor(h)'
    BY <1>6, FailsForKept DEF Facts, Errors
  <2> QED BY <2>1 DEF Errors
<1>11. HandlerFacts'
  <2>1. Stops' <=> Stops
    BY <1>2, <1>3, <1>4, ErrorItem DEF Stops
  <2>2. Gone("handler")' => Excused'
    <3>1. fails => Failing(from)
      BY <1>3
    <3>2. Failing(from) => Gone("handler") \/ Excused
      BY <1>0 DEF Facts, Errors, FailsFor
    <3> QED BY <3>1, <3>2, <1>3, ExcusedKept
  <2>3. Stops' => Complete(sent', scanned', written')
    BY <2>1, <1>3 DEF Facts, HandlerFacts
  <2> QED BY <2>2, <2>3 DEF HandlerFacts
<1> QED BY <1>3, <1>5, <1>7, <1>8, <1>9, <1>10, <1>11 DEF Facts

LEMMA FactsHandlerLeaves ==
    ASSUME PipelineTypeOK, PipelineTypeOK', Onward,
           NEW took \in Cursors, NEW gave \in Cursors, Flow(took, gave), Bounded(took), Facts(took),
           HandlerEnds \/ HandlerWriteFails
    PROVE  Facts(took)'
<1> USE GoroutineNames
\* The channel has ended without an error: all that was sent is written.
<1>1. ASSUME HandlerEnds
      PROVE  Complete(sent, scanned, written)
  <2>1. /\ "handler" \in running /\ Idle("handler") /\ ~Gone("handler")
        /\ channel[From("handler")] = <<>> /\ From("handler") \notin running
    BY <1>1 DEF HandlerEnds, Ended, Idle, Gone
  <2>2. CASE protocol = "chat"
    <3>1. /\ channel["parser"] = <<>> /\ "parser" \notin running /\ Gone("parser")
          /\ hold["parser"] = <<>>
      BY <2>1, <2>2 DEF From, Facts, Emptied, Gone
    <3>2. ~Failing("parser")
      BY <3>1 DEF Failing, HasKind
    <3>3. WholeAt(sent, took["parser"])
      BY <2>1, <2>2, <3>1, <3>2 DEF Facts, ParserFacts
    <3>4. took["parser"] \in Nat /\ took["parser"] <= scanned
      BY DEF Bounded, Cursors
    <3> QED BY <2>1, <2>2, <3>1, <3>3, <3>4, WrittenToChat, WholeIsWritten
  <2>3. CASE protocol = "responses"
    <3>1. /\ channel["adapter"] = <<>> /\ "adapter" \notin running /\ Gone("adapter")
          /\ hold["adapter"] = <<>>
      BY <2>1, <2>3 DEF From, Facts, Emptied, Gone
    <3>2. ~Failing("adapter")
      BY <3>1 DEF Failing, HasKind
    <3>3. WholeAt(sent, took["guard"]) /\ channel["guard"] = <<>> /\ hold["guard"] = <<>>
      BY <2>1, <2>3, <3>1, <3>2 DEF Facts, AdapterFacts, Emptied
    <3>4. took["guard"] \in Nat /\ took["guard"] <= scanned
      BY <2>3 DEF Bounded, Cursors
    <3> QED BY <2>1, <2>3, <3>1, <3>3, <3>4, WrittenToResponses, WholeIsWritten
  <2> QED BY <2>2, <2>3, Protocol DEF AllProtocols
<1>2. PICK items \in {<<>>, <<Item("stop")>>} :
        /\ Leaves("handler", items) /\ UNCHANGED readerVars /\ "handler" \in running
        /\ HasKind(items, "stop") => Complete(sent, scanned, written)
        /\ HasKind(items, "stop") \/ Excused
  <2>1. CASE HandlerEnds
    <3>1. Leaves("handler", <<Item("stop")>>) /\ UNCHANGED readerVars /\ "handler" \in running
      BY <2>1 DEF HandlerEnds, Ended, Idle
    <3> QED BY <2>1, <3>1, <1>1, ErrorItem
  <2>2. CASE HandlerWriteFails
    <3>1. Leaves("handler", <<>>) /\ UNCHANGED readerVars /\ "handler" \in running /\ clientGone
      BY <2>2 DEF HandlerWriteFails
    <3> QED BY <3>1, ErrorItem DEF Excused
  <2> QED BY <2>1, <2>2
<1>3. /\ Emptied' /\ BodyClosedFor'
      /\ \A h \in Goroutines : Gone(h)' <=> Gone(h) \/ h = "handler"
      /\ \A h \in Senders \ {"handler"} : Failing(h)' <=> Failing(h)
      /\ hold' = [hold EXCEPT !["handler"] = items]
      /\ UNCHANGED <<protocol, sent, wire, scanned, reader, running, channel, saw, clientGone, written>>
  BY <1>2, LeavesChanges DEF Facts
<1>4. hold'["reader"] = hold["reader"] /\ hold'["handler"] = items
  BY <1>3 DEF PipelineTypeOK
<1>5. ReaderFacts'
  BY <1>3, <1>4, ReaderFactsKept DEF Facts
<1>6. ParserFacts(took)'
  BY <1>3, ParserFactsKept DEF Facts, Bounded
<1>7. GuardFacts(took)'
  BY <1>3, GuardFactsKept DEF Facts, Bounded
<1>8. AdapterFacts(took)'
  BY <1>3, AdapterFactsKept DEF Facts, Bounded
<1>9. Errors'
  <2>1. \A h \in {"parser", "guard", "adapter"} : FailsFor(h)'
    BY <1>3, FailsForKept DEF Facts, Errors
  <2> QED BY <2>1 DEF Errors
<1>10. HandlerFacts'
  <2>1. Excused' \/ Stops'
    BY <1>2, <1>4, ExcusedKept DEF Stops
  <2>2. Stops' => HasKind(items, "stop") \/ Stops
    BY <1>3, <1>4 DEF Stops
  <2>3. Stops' => Complete(sent', scanned', written')
    BY <2>2, <1>2, <1>3 DEF Facts, HandlerFacts
  <2> QED BY <2>1, <2>3 DEF HandlerFacts
<1> QED BY <1>3, <1>5, <1>6, <1>7, <1>8, <1>9, <1>10 DEF Facts

-----------------------------------------------------------------------------
(* The inductive invariant *)

InTransit == \E took, gave \in Cursors : Flow(took, gave) /\ Facts(took)

PipelineInv == PipelineTypeOK /\ AllFaithful /\ InTransit

\* The facts are about the parser's and the guard's cursor alone.
LEMMA FactsSame ==
    ASSUME NEW took, NEW other, took["parser"] = other["parser"], took["guard"] = other["guard"],
           Facts(took)'
    PROVE  Facts(other)'
BY DEF Facts, ParserFacts, GuardFacts, AdapterFacts

LEMMA AllBounded ==
    ASSUME PipelineTypeOK, NEW took \in Cursors, NEW gave \in Cursors, Flow(took, gave)
    PROVE  Bounded(took)
<1>1. "parser" \in Members(protocol) /\ (protocol = "responses" => "guard" \in Members(protocol))
  BY GoroutineNames DEF Members
<1> QED BY <1>1, CursorsBounded DEF Bounded

\* What a goroutine makes up when it stops.
LEMMA LastItems ==
    ASSUME NEW items \in {<<>>, <<Item("error")>>, <<Item("stop")>>}
    PROVE  items \in Seq(Items) /\ \A i \in 1 .. Len(items) : items[i].line = 0
<1>1. CASE items = <<>>
  BY <1>1
<1>2. ASSUME NEW kind \in {"error", "stop"}, items = <<Item(kind)>>
      PROVE  items \in Seq(Items) /\ \A i \in 1 .. Len(items) : items[i].line = 0
  <2>1. Item(kind) \in Items /\ Item(kind).line = 0
    BY ItemTypes DEF Item
  <2> QED BY <2>1, <1>2
<1> QED BY <1>1, <1>2

LEMMA ReaderTransit ==
    ASSUME PipelineTypeOK, PipelineTypeOK', Onward, AllFaithful,
           NEW took \in Cursors, NEW gave \in Cursors, Flow(took, gave), Facts(took),
           ReaderScans \/ ReaderStops \/ ReaderAbandons
    PROVE  InTransit'
<1> USE GoroutineNames
<1>1. Bounded(took) /\ "reader" \in Members(protocol)
  BY AllBounded DEF Members
<1>2. CASE ReaderScans
  <2>1. PICK next : next = scanned + 1
    OBVIOUS
  <2>2. next \in Nat /\ Flow([took EXCEPT !["reader"] = next], gave)'
    BY <1>2, <2>1, FlowScans
  <2>3. Facts(took)'
    BY <1>1, <1>2, FactsScans
  <2> DEFINE took2 == [took EXCEPT !["reader"] = next]
  <2>4. took2 \in Cursors /\ took2["parser"] = took["parser"] /\ took2["guard"] = took["guard"]
    BY <2>2 DEF Cursors
  <2> HIDE DEF took2
  <2>5. Facts(took2)'
    BY <2>3, <2>4, FactsSame
  <2>6. Flow(took2, gave)'
    BY <2>2 DEF took2
  <2> QED BY <2>4, <2>5, <2>6 DEF InTransit
<1>3. CASE ReaderStops
  <2>1. PICK items \in {<<>>, <<Item("error")>>} :
          Leaves("reader", items) /\ UNCHANGED readerVars /\ Idle("reader")
    BY <1>3 DEF ReaderStops
  <2>2. items \in Seq(Items) /\ \A i \in 1 .. Len(items) : items[i].line = 0
    BY <2>1, LastItems
  <2>3. Flow(took, gave)'
    BY <1>1, <2>1, <2>2, FlowStops
  <2> QED BY <1>1, <1>3, <2>3, FactsReader DEF InTransit
<1>4. CASE ReaderAbandons
  <2>1. /\ Leaves("reader", <<>>) /\ UNCHANGED readerVars /\ "reader" \in running /\ "parser" \notin running
    BY <1>4 DEF ReaderAbandons
  <2>2. Abandoned("reader")'
    BY <2>1 DEF Leaves, Abandoned, Gone, PipelineTypeOK
  <2>3. Flow(took, gave)'
    BY <2>1, <2>2, FlowLeaves, SequencesOfItems
  <2> QED BY <1>1, <1>4, <2>3, FactsReader DEF InTransit
<1> QED BY <1>2, <1>3, <1>4

LEMMA ParserTransit ==
    ASSUME PipelineTypeOK, PipelineTypeOK', Onward, AllFaithful,
           NEW took \in Cursors, NEW gave \in Cursors, Flow(took, gave), Facts(took),
           ParserTakes \/ ParserCancelled \/ ParserEnds
    PROVE  InTransit'
<1> USE GoroutineNames
<1>1. Bounded(took) /\ "parser" \in Members(protocol)
  BY AllBounded DEF Members
<1>2. CASE ParserTakes
  <2> DEFINE line == NextItem("parser")
             item == [line EXCEPT !.kind = Parsed(line.kind)]
             last == line.kind = "error" \/ (protocol = "chat" /\ line.kind # "data")
  <2>1. Takes("parser", <<item>>, last) /\ Ready("parser") /\ "parser" \in Members(protocol) \ {"reader"}
    BY <1>1, <1>2 DEF ParserTakes
  <2>2. line \in Items /\ item \in Items /\ item.line = line.line
    <3>1. line \in Items
      BY <2>1, NextItemType
    <3> QED BY <3>1, ParsedType DEF Items
  <2> HIDE DEF item, last
  <2>3. Passes("parser", line, <<item>>) /\ <<item>> \in Seq(Items)
    BY <2>2 DEF Passes
  <2>4. PICK next : next = Behind(NextItem("parser"), Lines(From("parser"), sent), took["parser"])
    OBVIOUS
  <2>5. next \in Nat /\ Flow([took EXCEPT !["parser"] = next], gave)'
    BY <2>1, <2>3, <2>4, FlowTakes
  <2>6. Facts([took EXCEPT !["parser"] = next])'
    BY <1>1, <1>2, <2>4, FactsParserTakes
  <2>7. [took EXCEPT !["parser"] = next] \in Cursors
    BY <2>5 DEF Cursors
  <2> QED BY <2>5, <2>6, <2>7 DEF InTransit
<1>3. ASSUME NEW items \in {<<>>, <<Item("error")>>},
             Leaves("parser", items), UNCHANGED readerVars, Idle("parser")
      PROVE  Flow(took, gave)'
  <2>1. items \in Seq(Items) /\ \A i \in 1 .. Len(items) : items[i].line = 0
    BY LastItems
  <2> QED BY <1>1, <1>3, <2>1, FlowStops
<1>4. CASE ParserCancelled \/ ParserEnds
  <2>1. Flow(took, gave)'
    BY <1>3, <1>4 DEF ParserCancelled, ParserEnds, Ended
  <2> QED BY <1>1, <1>4, <2>1, FactsParserLeaves DEF InTransit
<1> QED BY <1>2, <1>4

LEMMA GuardTransit ==
    ASSUME PipelineTypeOK, PipelineTypeOK', Onward, AllFaithful,
           NEW took \in Cursors, NEW gave \in Cursors, Flow(took, gave), Facts(took),
           GuardTakes \/ GuardEnds
    PROVE  InTransit'
<1> USE GoroutineNames
<1>1. Bounded(took) /\ "guard" \in Members(protocol) \ {"reader"}
  BY AllBounded, ResponsesOnly DEF GuardTakes, GuardEnds, Ready, Ended, Idle
<1>2. CASE GuardTakes
  <2>1. Takes("guard", <<NextItem("guard")>>, FALSE) /\ Ready("guard")
    BY <1>2 DEF GuardTakes
  <2>2. NextItem("guard") \in Items
    BY <1>1, <2>1, NextItemType
  <2>3. Passes("guard", NextItem("guard"), <<NextItem("guard")>>) /\ <<NextItem("guard")>> \in Seq(Items)
    BY <2>2 DEF Passes
  <2>4. PICK next : next = Behind(NextItem("guard"), Lines(From("guard"), sent), took["guard"])
    OBVIOUS
  <2>5. next \in Nat /\ Flow([took EXCEPT !["guard"] = next], gave)'
    BY <1>1, <2>1, <2>3, <2>4, FlowTakes
  <2>6. Facts([took EXCEPT !["guard"] = next])'
    BY <1>1, <1>2, <2>4, FactsGuardTakes
  <2>7. [took EXCEPT !["guard"] = next] \in Cursors
    BY <2>5 DEF Cursors
  <2> QED BY <2>5, <2>6, <2>7 DEF InTransit
<1>3. CASE GuardEnds
  <2>1. PICK items \in {<<>>, <<Item("error")>>} :
          Leaves("guard", items) /\ UNCHANGED readerVars /\ Idle("guard")
    BY <1>3 DEF GuardEnds, Ended
  <2>2. items \in Seq(Items) /\ \A i \in 1 .. Len(items) : items[i].line = 0
    BY <2>1, LastItems
  <2>3. Flow(took, gave)'
    BY <1>1, <2>1, <2>2, FlowStops
  <2> QED BY <1>1, <1>3, <2>3, FactsGuardEnds DEF InTransit
<1> QED BY <1>2, <1>3

\* Content is passed on; an end, an error or a failure is not content.
LEMMA NotContent ==
    ASSUME PipelineTypeOK, NEW g \in {"adapter", "handler"}, NEW item,
           Faithful(From(g), item, sent, scanned), From(g) \in Senders \ {"reader"},
           item.kind \in {"done", "error"}
    PROVE  item.line \notin Lines(g, sent) /\ 0 \notin Lines(g, sent)
<1>1. 0 \notin Lines(g, sent)
  BY Counters, LinesType
<1>2. item.line # 0 => sent[item.line] # "data"
  BY GoroutineNames DEF Faithful, Parsed
<1> QED BY <1>1, <1>2 DEF Lines

LEMMA AdapterTransit ==
    ASSUME PipelineTypeOK, PipelineTypeOK', Onward, AllFaithful,
           NEW took \in Cursors, NEW gave \in Cursors, Flow(took, gave), Facts(took),
           AdapterTakes \/ AdapterEnds
    PROVE  InTransit'
<1> USE GoroutineNames
<1>1. /\ Bounded(took) /\ "adapter" \in Members(protocol) \ {"reader"} /\ From("adapter") = "guard"
  BY AllBounded, ResponsesOnly DEF AdapterTakes, AdapterEnds, Ready, Ended, Idle, From
<1>2. CASE AdapterTakes
  <2> DEFINE chunk == NextItem("adapter")
             pair == <<Item("finish"), Item("done")>>
             items == IF chunk.kind = "done" THEN pair ELSE <<chunk>>
             fails == chunk.kind = "error"
  <2>1. Takes("adapter", items, fails) /\ Ready("adapter")
    BY <1>2 DEF AdapterTakes
  <2>2. chunk \in Items /\ Faithful(From("adapter"), chunk, sent, scanned)
    BY <1>1, <2>1, NextItemType, NextItemFaithful
  <2>3. pair \in Seq(Items) /\ \A i \in 1 .. Len(pair) : pair[i].line = 0
    BY ItemTypes, SequencesOfItems DEF Item
  <2> HIDE DEF chunk, pair, fails
  <2>4. Passes("adapter", chunk, items) /\ items \in Seq(Items)
    <3>1. CASE chunk.kind = "done"
      <4>1. chunk.line \notin Lines("adapter", sent) /\ 0 \notin Lines("adapter", sent)
        BY <3>1, <2>2, <1>1, NotContent
      <4> QED BY <3>1, <4>1, <2>3 DEF Passes
    <3>2. CASE chunk.kind # "done"
      BY <3>2, <2>2 DEF Passes
    <3> QED BY <3>1, <3>2
  <2> HIDE DEF items
  <2>5. PICK next : next = Behind(chunk, Lines(From("adapter"), sent), took["adapter"])
    OBVIOUS
  <2>6. next \in Nat /\ Flow([took EXCEPT !["adapter"] = next], gave)'
    BY <1>1, <2>1, <2>4, <2>5, FlowTakes DEF chunk
  <2> DEFINE took2 == [took EXCEPT !["adapter"] = next]
  <2>7. took2 \in Cursors /\ took2["parser"] = took["parser"] /\ took2["guard"] = took["guard"]
    BY <2>6 DEF Cursors
  <2> HIDE DEF took2
  <2>8. Flow(took2, gave)'
    BY <2>6 DEF took2
  <2>9. Facts(took2)'
    BY <1>1, <1>2, <2>7, FactsAdapterTakes, FactsSame
  <2> QED BY <2>7, <2>8, <2>9 DEF InTransit
<1>3. CASE AdapterEnds
  <2>1. Leaves("adapter", <<>>) /\ UNCHANGED readerVars /\ Idle("adapter")
    BY <1>3 DEF AdapterEnds, Ended
  <2>2. Flow(took, gave)'
    BY <1>1, <2>1, LastItems, FlowStops
  <2> QED BY <1>1, <1>3, <2>2, FactsAdapterEnds DEF InTransit
<1> QED BY <1>2, <1>3

LEMMA HandlerTransit ==
    ASSUME PipelineTypeOK, PipelineTypeOK', Onward, AllFaithful,
           NEW took \in Cursors, NEW gave \in Cursors, Flow(took, gave), Facts(took),
           HandlerTakes \/ HandlerEnds \/ HandlerWrites \/ HandlerWriteFails
    PROVE  InTransit'
<1> USE GoroutineNames
<1>1. /\ Bounded(took) /\ "handler" \in Members(protocol) \ {"reader"}
      /\ From("handler") \in {"parser", "adapter"}
  BY AllBounded DEF Members, From
<1>2. CASE HandlerTakes
  <2> DEFINE chunk == NextItem("handler")
             items == IF chunk.kind \in {"error", "done"} THEN <<>> ELSE <<chunk>>
             fails == chunk.kind = "error"
  <2>1. Takes("handler", items, fails) /\ Ready("handler")
    BY <1>2 DEF HandlerTakes
  <2>2. chunk \in Items /\ Faithful(From("handler"), chunk, sent, scanned)
    BY <1>1, <2>1, NextItemType, NextItemFaithful
  <2> HIDE DEF chunk, fails
  <2>3. Passes("handler", chunk, items) /\ items \in Seq(Items)
    <3>1. CASE chunk.kind \in {"error", "done"}
      <4>1. chunk.line \notin Lines("handler", sent)
        BY <3>1, <2>2, <1>1, NotContent
      <4> QED BY <3>1, <4>1 DEF Passes
    <3>2. CASE chunk.kind \notin {"error", "done"}
      BY <3>2, <2>2 DEF Passes
    <3> QED BY <3>1, <3>2
  <2> HIDE DEF items
  <2>4. PICK next : next = Behind(chunk, Lines(From("handler"), sent), took["handler"])
    OBVIOUS
  <2>5. next \in Nat /\ Flow([took EXCEPT !["handler"] = next], gave)'
    BY <1>1, <2>1, <2>3, <2>4, FlowTakes DEF chunk
  <2> DEFINE took2 == [took EXCEPT !["handler"] = next]
  <2>6. took2 \in Cursors /\ took2["parser"] = took["parser"] /\ took2["guard"] = took["guard"]
    BY <2>5 DEF Cursors
  <2> HIDE DEF took2
  <2>7. Flow(took2, gave)'
    BY <2>5 DEF took2
  <2>8. Facts(took2)'
    BY <1>1, <1>2, <2>6, FactsHandlerTakes, FactsSame
  <2> QED BY <2>6, <2>7, <2>8 DEF InTransit
<1>3. CASE HandlerEnds
  <2>1. Leaves("handler", <<Item("stop")>>) /\ UNCHANGED readerVars /\ Idle("handler")
    BY <1>3 DEF HandlerEnds, Ended
  <2>2. /\ <<Item("stop")>> \in Seq(Items)
        /\ \A i \in 1 .. Len(<<Item("stop")>>) : <<Item("stop")>>[i].line = 0
    BY ItemTypes, SequencesOfItems DEF Item
  <2>3. Flow(took, gave)'
    BY <1>1, <2>1, <2>2, FlowStops
  <2> QED BY <1>1, <1>3, <2>3, FactsHandlerLeaves DEF InTransit
<1>4. CASE HandlerWrites
  <2>1. PICK next : next = Behind(Head(hold["handler"]), Lines("handler", sent), gave["handler"])
    OBVIOUS
  <2>2. next \in Nat /\ Flow(took, [gave EXCEPT !["handler"] = next])'
    BY <1>4, <2>1, FlowWrites
  <2>3. [gave EXCEPT !["handler"] = next] \in Cursors
    BY <2>2 DEF Cursors
  <2> QED BY <1>1, <1>4, <2>2, <2>3, FactsWrites DEF InTransit
<1>5. CASE HandlerWriteFails
  <2>1. Leaves("handler", <<>>) /\ UNCHANGED readerVars /\ "handler" \in running
    BY <1>5 DEF HandlerWriteFails
  <2>2. Abandoned("handler")'
    BY <2>1 DEF Leaves, Abandoned, Gone, PipelineTypeOK
  <2>3. Flow(took, gave)'
    BY <2>1, <2>2, FlowLeaves, SequencesOfItems
  <2> QED BY <1>1, <1>5, <2>3, FactsHandlerLeaves DEF InTransit
<1> QED BY <1>2, <1>3, <1>4, <1>5

LEMMA SendsTransit ==
    ASSUME PipelineTypeOK, PipelineTypeOK', Onward,
           NEW took \in Cursors, NEW gave \in Cursors, Flow(took, gave), Facts(took),
           NEW g \in Senders, Sends(g)
    PROVE  InTransit'
<1>1. PICK next : next = Behind(Head(hold[g]), Lines(g, sent), gave[g])
  OBVIOUS
<1>2. next \in Nat /\ Flow(took, [gave EXCEPT ![g] = next])'
  BY <1>1, FlowSends
<1>3. [gave EXCEPT ![g] = next] \in Cursors
  BY <1>2 DEF Cursors
<1> QED BY <1>2, <1>3, AllBounded, FactsSends DEF InTransit

LEMMA QuietTransit ==
    ASSUME PipelineTypeOK, PipelineTypeOK', Onward, AllFaithful,
           NEW took \in Cursors, NEW gave \in Cursors, Flow(took, gave), Facts(took),
           \/ \E kind \in LineKinds : UpstreamSends(kind)
           \/ \E how \in {"ended", "broken"} : UpstreamStops(how)
           \/ ClientLeaves \/ ReaderReceives \/ TimePasses \/ MonitorChecks \/ UNCHANGED vars
    PROVE  InTransit'
<1>1. UNCHANGED <<channel, hold, leaving, running, saw, written>>
  BY DEF UpstreamSends, UpstreamStops, ClientLeaves, ReaderReceives, TimePasses, MonitorChecks, vars
<1>2. BodyClosedFor'
  <2>1. reader.timedOut => reader'.timedOut
    BY DEF Onward
  <2>2. bodyClosed' => bodyClosed \/ reader'.timedOut
    <3>1. CASE MonitorChecks
      <4>1. CASE reader.age >= IdleTicks
        <5>1. reader' = Closed(TRUE)
          BY <3>1, <4>1 DEF MonitorChecks
        <5> QED BY <5>1 DEF Closed
      <4>2. CASE ~(reader.age >= IdleTicks)
        BY <3>1, <4>2 DEF MonitorChecks
      <4> QED BY <4>1, <4>2
    <3>2. CASE ~MonitorChecks
      BY <3>2 DEF UpstreamSends, UpstreamStops, ClientLeaves, ReaderReceives, TimePasses, vars, readerVars
    <3> QED BY <3>1, <3>2
  <2> QED BY <1>1, <2>1, <2>2 DEF Facts, BodyClosedFor
<1>3. Facts(took)'
  BY <1>1, <1>2, AllBounded, FactsQuiet
<1>4. Flow(took, gave)'
  <2>1. CASE UNCHANGED <<sent, scanned>>
    BY <1>1, <2>1, FlowStill
  <2>2. CASE \E kind \in LineKinds : UpstreamSends(kind)
    BY <2>2, FlowUpstream
  <2> QED
    BY <2>1, <2>2 DEF UpstreamStops, ClientLeaves, ReaderReceives, TimePasses, MonitorChecks,
                      vars, upstreamVars, readerVars
<1> QED BY <1>3, <1>4 DEF InTransit

LEMMA PipelineInvStep == PipelineInv /\ [PipelineNext]_vars => PipelineInv'
<1> SUFFICES ASSUME PipelineInv, [PipelineNext]_vars
             PROVE  PipelineInv'
  OBVIOUS
<1> USE GoroutineNames
<1>1. PipelineTypeOK /\ AllFaithful /\ PipelineTypeOK' /\ AllFaithful' /\ Onward
  BY PipelineTypeStep, FaithfulStep, StepsOnward DEF PipelineInv
<1>2. PICK took \in Cursors, gave \in Cursors : Flow(took, gave) /\ Facts(took)
  BY DEF PipelineInv, InTransit
<1>3. ASSUME NEW g \in Goroutines, Returns(g)
      PROVE  InTransit'
  <2>1. UNCHANGED <<sent, scanned, channel, hold, written>>
    BY <1>3 DEF Returns, upstreamVars
  <2>2. Flow(took, gave)'
    BY <1>1, <1>2, <2>1, FlowStill
  <2>3. Facts(took)'
    BY <1>1, <1>2, <1>3, AllBounded, FactsReturns
  <2> QED BY <2>2, <2>3 DEF InTransit
<1>4. InTransit'
  <2>1. CASE ReaderStep
    BY <1>1, <1>2, <1>3, <2>1, ReaderTransit, QuietTransit, SendsTransit DEF ReaderStep
  <2>2. CASE ParserStep
    BY <1>1, <1>2, <1>3, <2>2, ParserTransit, SendsTransit DEF ParserStep
  <2>3. CASE GuardStep
    BY <1>1, <1>2, <1>3, <2>3, GuardTransit, SendsTransit DEF GuardStep
  <2>4. CASE AdapterStep
    BY <1>1, <1>2, <1>3, <2>4, AdapterTransit, SendsTransit DEF AdapterStep
  <2>5. CASE HandlerStep
    BY <1>1, <1>2, <1>3, <2>5, HandlerTransit DEF HandlerStep
  <2> QED
    BY <1>1, <1>2, <2>1, <2>2, <2>3, <2>4, <2>5, QuietTransit DEF PipelineNext, Over
<1> QED BY <1>1, <1>4 DEF PipelineInv

LEMMA PipelineInvInit == PipelineInit => PipelineInv
<1> SUFFICES ASSUME PipelineInit
             PROVE  PipelineInv
  OBVIOUS
<1> USE GoroutineNames
<1>1. PipelineTypeOK /\ protocol \in AllProtocols
  BY PipelineTypeInit, Protocol
<1> DEFINE none == [g \in Goroutines |-> 0]
<1>2. none \in Cursors /\ Flow(none, none) /\ AllFaithful
  BY FlowInit DEF Cursors
<1>3. none["parser"] = 0 /\ none["guard"] = 0
  OBVIOUS
<1> HIDE DEF none
<1>4. /\ \A g \in Goroutines : hold[g] = <<>>
      /\ \A g \in Senders : channel[g] = <<>>
      /\ written = <<>> /\ leaving = {} /\ running = Members(protocol) /\ saw = {} /\ ~bodyClosed
  BY DEF PipelineInit
<1>5. \A g \in Senders : ~Failing(g)
  BY <1>4, ErrorItem DEF Failing
<1>6. /\ \A g \in {"reader", "parser", "handler"} : ~Gone(g)
      /\ protocol = "responses" => ~Gone("guard") /\ ~Gone("adapter")
  BY <1>4 DEF Gone, Members
<1>7. Emptied /\ BodyClosedFor /\ Errors
  BY <1>4, <1>5 DEF Emptied, BodyClosedFor, Errors, FailsFor
<1>8. ReaderFacts
  <2>1. Len(hold["reader"]) = 0 /\ Len(channel["reader"]) = 0
    BY <1>4
  <2> QED BY <2>1, <1>4, <1>5, <1>6, ErrorItem DEF ReaderFacts
<1>9. \A kind : Of(kind, sent, 0) = {}
  BY DEF Of
<1>10. ParserFacts(none) /\ GuardFacts(none) /\ AdapterFacts(none)
  BY <1>3, <1>4, <1>6, <1>9 DEF ParserFacts, GuardFacts, AdapterFacts
<1>11. HandlerFacts
  <2>1. ~Stops
    BY <1>4, ErrorItem DEF Stops
  <2> QED BY <2>1, <1>6 DEF HandlerFacts
<1> QED BY <1>1, <1>2, <1>7, <1>8, <1>10, <1>11 DEF PipelineInv, InTransit, Facts

LEMMA PipelineInvHolds == PipelineSpec => []PipelineInv
BY PipelineInvInit, PipelineInvStep, PTL DEF PipelineSpec

-----------------------------------------------------------------------------
(* What the client gets *)

LEMMA SentIsOf == ASSUME NEW kind, NEW n PROVE Sent(kind, n) = Of(kind, sent, n)
BY DEF Sent, Of

LEMMA HasWritten ==
    ASSUME PipelineTypeOK, NEW kind
    PROVE  Has(kind) <=> HasKind(written, kind)
<1>1. DOMAIN written = 1 .. Len(written)
  <2>1. written \in Seq(Items)
    BY DEF PipelineTypeOK
  <2> QED BY <2>1
<1> QED BY <1>1 DEF Has, HasKind

LEMMA InvInOrder == PipelineInv => InOrder
<1> SUFFICES ASSUME PipelineInv
             PROVE  InOrder
  OBVIOUS
<1>1. PICK took, gave \in Cursors : Flow(took, gave)
  BY DEF PipelineInv, InTransit
<1> QED BY <1>1, FlowInOrder DEF PipelineInv

LEMMA InvHandler == PipelineInv => HandlerFacts /\ Emptied
BY DEF PipelineInv, InTransit, Facts

\* Only content carries the number of a data line to the client.
LEMMA LineIsContent ==
    ASSUME PipelineTypeOK, AllFaithful,
           NEW line \in Of("data", sent, scanned), NEW i \in 1 .. Len(written),
           written[i].line = line
    PROVE  line \in Content(Len(written))
<1>1. Faithful("handler", written[i], sent, scanned)
  BY DEF AllFaithful, Sound
<1>2. scanned \in Nat
  BY Counters
<1>3. line \in Nat /\ line > 0 /\ sent[line] = "data"
  BY <1>2 DEF Of
<1>4. written[i].kind = "data"
  BY <1>1, <1>3 DEF Faithful, Unnumbered, Parsed
<1> QED BY <1>4 DEF Content

LEMMA InvComplete == PipelineInv => WholeIsComplete
<1> SUFFICES ASSUME PipelineInv, Has("stop")
             PROVE  \E end \in Sent("end", scanned) :
                        /\ Sent("bad", end) = {}
                        /\ Sent("data", end) \subseteq Content(Len(written))
  BY DEF WholeIsComplete
<1>1. PipelineTypeOK /\ AllFaithful
  BY DEF PipelineInv
<1>2. Complete(sent, scanned, written)
  BY <1>1, HasWritten, InvHandler DEF HandlerFacts, Stops
<1>3. PICK end \in Of("end", sent, scanned) :
          /\ Of("bad", sent, end) = {}
          /\ \A line \in Of("data", sent, end) : \E i \in 1 .. Len(written) : written[i].line = line
  BY <1>2 DEF Complete
<1>4. scanned \in Nat /\ end \in Nat /\ end <= scanned
  BY <1>1, Counters DEF Of
<1>5. Of("data", sent, end) \subseteq Of("data", sent, scanned)
  BY <1>4 DEF Of
<1>6. Of("data", sent, end) \subseteq Content(Len(written))
  BY <1>1, <1>3, <1>5, LineIsContent
<1> QED BY <1>3, <1>6, SentIsOf

LEMMA InvCut == PipelineInv => CutForReason
<1> SUFFICES ASSUME PipelineInv, Cut, ~clientGone
             PROVE  /\ reader.timedOut \/ wire # "open" \/ Of("bad", sent, scanned) # {}
                    /\ wire = "ended" /\ ~reader.timedOut =>
                          Of("bad", sent, scanned) # {} \/ Of("end", sent, scanned) = {}
                    /\ protocol = "chat" =>
                          \A end \in Of("end", sent, scanned) : Of("bad", sent, end) # {}
  BY SentIsOf DEF CutForReason
<1>1. PipelineTypeOK /\ scanned \in Nat
  BY Counters DEF PipelineInv
<1>2. ~HasKind(written, "stop")
  BY <1>1, HasWritten DEF Cut
<1>3. hold["handler"] = <<>>
  BY InvHandler, GoroutineNames DEF Cut, Emptied
<1>4. ~Stops
  BY <1>2, <1>3, ErrorItem DEF Stops, HasKind
<1>5. BadFirst \/ Silent
  BY <1>4, InvHandler DEF Cut, Gone, HandlerFacts, Excused
<1>6. CASE BadFirst
  <2>1. PICK bad \in Of("bad", sent, scanned) :
            protocol = "chat" => Of("end", sent, bad) = {}
    BY <1>6 DEF BadFirst
  <2>2. bad \in Nat /\ bad >= 1 /\ bad <= scanned /\ sent[bad] = "bad"
    BY <1>1 DEF Of
  <2>3. ASSUME protocol = "chat", NEW end \in Of("end", sent, scanned)
        PROVE  bad \in Of("bad", sent, end)
    <3>1. end \in Nat /\ end >= 1 /\ sent[end] = "end"
      BY <1>1 DEF Of
    <3>2. ~(end <= bad)
      BY <2>1, <2>2, <2>3, <3>1 DEF Of
    <3> QED BY <2>2, <3>1, <3>2 DEF Of
  <2> QED BY <2>1, <2>3
<1>7. CASE Silent
  BY <1>7 DEF Silent
<1> QED BY <1>5, <1>6, <1>7

\* The content reaches the client in the order upstream sent it, without a gap
\* and without a repetition, whatever the capacities of the channels, however
\* far the reader is ahead of the parser and whoever returns first
\* (parseStreamInternal, ToOpenAIStream and handleStream).
THEOREM ContentInOrder == PipelineSpec => []InOrder
BY PipelineInvHolds, InvInOrder, PTL

\* A message that handleStream closes as a whole one is whole: upstream sent its
\* end and no failure before it, and all the content before the end has reached
\* the client.  No truncated answer passes for a success.
THEOREM WholeMessagesComplete == PipelineSpec => []WholeIsComplete
BY PipelineInvHolds, InvComplete, PTL

\* A message is cut off only for a reason: the client left, the monitor closed a
\* silent body, or upstream broke off, failed or ended without its end; and a
\* chat stream whose [DONE] came before any failure is never cut while its
\* client stays.
THEOREM CutsExplained == PipelineSpec => []CutForReason
BY PipelineInvHolds, InvCut, PTL
===============================================================================
