-------------------------- MODULE CodexStreamProofs ---------------------------
(***************************************************************************)
(* CodexStream, proved for any responses, whatever upstream does with      *)
(* their events, and any number of deltas and terminal events.             *)
(***************************************************************************)
EXTENDS CodexStream, StreamConverterProofs, SequenceTheorems, WellFoundedInduction, TLAPS

-----------------------------------------------------------------------------
(* What a terminal event supplies *)

\* A non-empty set of numbers has a least one.
LEMMA Least ==
    ASSUME NEW S \in SUBSET Nat, S # {}
    PROVE  \E m \in S : \A n \in S : m <= n
<1>1. IsWellFoundedOn(OpToRel(<, Nat), Nat)
  BY NatLessThanWellFounded
<1>2. \A m, n \in Nat : n < m => <<n, m>> \in OpToRel(<, Nat)
  BY DEF OpToRel
<1>3. PICK R : IsWellFoundedOn(R, Nat) /\ \A m, n \in Nat : n < m => <<n, m>> \in R
  BY <1>1, <1>2, Zenon
<1>4. PICK m \in S : \A n \in S : ~(<<n, m>> \in R)
  BY <1>3, WFMin
<1>5. \A n \in S : m \in Nat /\ n \in Nat /\ ~(n < m)
  BY <1>3, <1>4
<1> QED BY <1>5

LEMMA OutputItems ==
    ASSUME output \in Outputs
    PROVE  /\ output \in Seq(Items) /\ Len(output) \in Nat /\ Positions = 1 .. Len(output)
           /\ {0} \cup Positions = 0 .. Len(output)
           /\ \A i \in Positions :
                 /\ i \in Nat /\ i - 1 \in Calls /\ output[i] \in Items
                 /\ output[i].index \in Calls /\ output[i].kind \in {"text", "call", "bare"}
<1>1. output \in Seq(Items)
  BY OutputsAssumption
<1>2. Len(output) \in Nat /\ Positions = 1 .. Len(output) /\ \A i \in Positions : output[i] \in Items
  BY <1>1 DEF Positions
<1>3. {0} \cup Positions = 0 .. Len(output)
  BY <1>2
<1>4. \A i \in Positions : i - 1 \in Calls
  BY PositionsAssumption DEF Positions
<1> QED BY <1>1, <1>2, <1>3, <1>4 DEF Items

\* What has been supplied after n items, given what was after the one before.
SuppliedNext(f, n) ==
    IF n = 0 THEN <<>> ELSE IF Missing(n) THEN Append(f[n - 1], Supply(n)) ELSE f[n - 1]

\* The recursion of Supplied is sound.
LEMMA SuppliedUnfolds ==
    ASSUME output \in Outputs
    PROVE  \A n \in 0 .. Len(output) : Supplied[n] = SuppliedNext(Supplied, n)
<1>1. Len(output) \in Nat /\ {0} \cup Positions = 0 .. Len(output)
  BY OutputItems
<1> DEFINE Defined(m) == \E f : f = [n \in 0 .. m |-> SuppliedNext(f, n)]
           Undefined == {m \in Nat : ~Defined(m)}
<1>2. Undefined = {}
  <2> SUFFICES ASSUME Undefined # {} PROVE FALSE
    OBVIOUS
  <2>1. PICK m \in Undefined : \A n \in Undefined : m <= n
    <3>1. Undefined \in SUBSET Nat
      OBVIOUS
    <3> HIDE DEF Undefined
    <3> QED BY <3>1, Least
  <2>2. CASE m = 0
    <3>1. [n \in 0 .. 0 |-> <<>>] = [n \in 0 .. 0 |-> SuppliedNext([k \in 0 .. 0 |-> <<>>], n)]
      BY DEF SuppliedNext
    <3>2. Defined(0)
      BY <3>1
    <3> QED BY <2>1, <2>2, <3>2
  <2>3. CASE m # 0
    <3>1. m \in Nat /\ m - 1 \in Nat /\ m - 1 \notin Undefined
      BY <2>1, <2>3
    <3>2. Defined(m - 1)
      BY <3>1
    <3>3. PICK f : f = [n \in 0 .. m - 1 |-> SuppliedNext(f, n)]
      BY <3>2
    <3> DEFINE g == [n \in 0 .. m |-> IF n = m THEN SuppliedNext(f, m) ELSE f[n]]
    <3>4. ASSUME NEW n \in 0 .. m
          PROVE  g[n] = SuppliedNext(g, n)
      <4>1. CASE n = 0
        <5>1. g[n] = f[0] /\ f[0] = SuppliedNext(f, 0)
          BY <2>3, <3>1, <3>3, <4>1
        <5> QED BY <4>1, <5>1 DEF SuppliedNext
      <4>2. CASE n # 0
        <5>1. n - 1 \in 0 .. m - 1 /\ n - 1 # m /\ n - 1 \in 0 .. m
          BY <3>1, <4>2
        <5>2. g[n - 1] = f[n - 1]
          BY <5>1
        <5>3. SuppliedNext(g, n) = SuppliedNext(f, n)
          BY <4>2, <5>2 DEF SuppliedNext
        <5>4. CASE n = m
          BY <5>3, <5>4
        <5>5. CASE n # m
          <6>1. n \in 0 .. m - 1
            BY <3>1, <5>5
          <6> QED BY <3>3, <5>3, <5>5, <6>1
        <5> QED BY <5>4, <5>5
      <4> QED BY <4>1, <4>2
    <3>5. g = [n \in 0 .. m |-> SuppliedNext(g, n)]
      <4>1. DOMAIN g = 0 .. m /\ g = [n \in DOMAIN g |-> g[n]]
        OBVIOUS
      <4> HIDE DEF g
      <4> QED BY <4>1, <3>4
    <3>6. Defined(m)
      <4> HIDE DEF g
      <4> QED BY <3>5
    <3> QED BY <2>1, <3>6
  <2> QED BY <2>2, <2>3
<1>3. Defined(Len(output))
  BY <1>1, <1>2
<1>4. Supplied = [n \in 0 .. Len(output) |-> SuppliedNext(Supplied, n)]
  BY <1>1, <1>3 DEF Supplied, SuppliedNext
<1> QED BY <1>4

\* The indexes noted are indexes.
ItemsKnown == output \in Outputs /\ itemIndex \in [{0} \cup Positions -> Calls \cup {Nobody}]

LEMMA IdType == \A i \in Positions : \A event : Id(i, event) \in {0} \cup Positions
BY DEF Id

LEMMA CargoTypes ==
    ASSUME ItemsKnown
    PROVE  /\ Failure \in Cargo
           /\ \A i \in Positions, whole \in BOOLEAN :
                 /\ TextChunk(i, whole) \in Cargo /\ CallStart(i) \in Cargo
                 /\ \A call \in Calls : CallArguments(i, call, whole) \in Cargo
           /\ \A i \in Positions : Supply(i) \in Cargo
           /\ \A status : \A counted \in BOOLEAN :
                 /\ Usage(counted) \in Seq(Cargo) /\ Len(Usage(counted)) = (IF counted THEN 1 ELSE 0)
                 /\ Finish(status, counted) \in Seq(Cargo)
                 /\ Len(Finish(status, counted)) = Len(Usage(counted)) + 2
                 /\ counted => Finish(status, counted)[1] = Carry(Plain("usage"), 0, FALSE)
                 /\ Finish(status, counted)[Len(Usage(counted)) + 1]
                       = [Carry(Plain("finish"), 0, FALSE) EXCEPT !.reason = FinishReason(status, hasToolUse)]
                 /\ Finish(status, counted)[Len(Usage(counted)) + 2] = Carry(Plain("done"), 0, FALSE)
<1>0. output \in Outputs
  BY DEF ItemsKnown
<1> USE <1>0, OutputItems
    DEF Carry, Plain, ToolDelta, Cargo, Chunks, Kinds, Reasons
<1>1. Failure \in Cargo
  BY DEF Failure
<1>2. ASSUME NEW i \in Positions, NEW whole \in BOOLEAN
      PROVE  /\ TextChunk(i, whole) \in Cargo /\ CallStart(i) \in Cargo
             /\ \A call \in Calls : CallArguments(i, call, whole) \in Cargo
  <2>1. TextChunk(i, whole) \in Cargo
    BY DEF TextChunk
  <2>2. CallStart(i) \in Cargo
    BY DEF CallStart
  <2>3. \A call \in Calls : CallArguments(i, call, whole) \in Cargo
    BY DEF CallArguments
  <2> QED BY <2>1, <2>2, <2>3
<1>3. ASSUME NEW i \in Positions
      PROVE  Supply(i) \in Cargo
  <2>1. output[i].index \in Calls /\ i - 1 \in Calls
    BY OutputItems
  <2>2. itemIndex[Id(i, "listed")] \in Calls \cup {Nobody}
    BY IdType DEF ItemsKnown
  <2> QED BY <1>2, <2>1, <2>2 DEF Supply
<1>4. ASSUME NEW status, NEW counted \in BOOLEAN
      PROVE  /\ Usage(counted) \in Seq(Cargo) /\ Len(Usage(counted)) = (IF counted THEN 1 ELSE 0)
             /\ Finish(status, counted) \in Seq(Cargo)
             /\ Len(Finish(status, counted)) = Len(Usage(counted)) + 2
             /\ counted => Finish(status, counted)[1] = Carry(Plain("usage"), 0, FALSE)
             /\ Finish(status, counted)[Len(Usage(counted)) + 1]
                   = [Carry(Plain("finish"), 0, FALSE) EXCEPT !.reason = FinishReason(status, hasToolUse)]
             /\ Finish(status, counted)[Len(Usage(counted)) + 2] = Carry(Plain("done"), 0, FALSE)
  <2>1. FinishReason(status, hasToolUse) \in Reasons
    BY DEF FinishReason
  <2>2. /\ Carry(Plain("usage"), 0, FALSE) \in Cargo
        /\ Carry(Plain("done"), 0, FALSE) \in Cargo
        /\ [Carry(Plain("finish"), 0, FALSE) EXCEPT !.reason = FinishReason(status, hasToolUse)] \in Cargo
    BY <2>1
  <2> DEFINE used == Carry(Plain("usage"), 0, FALSE)
             last == [Carry(Plain("finish"), 0, FALSE) EXCEPT !.reason = FinishReason(status, hasToolUse)]
             end == Carry(Plain("done"), 0, FALSE)
             made == Finish(status, counted)
             n == Len(Usage(counted))
  <2>3. used \in Cargo /\ last \in Cargo /\ end \in Cargo
    BY <2>2
  <2>4. /\ Usage(counted) = (IF counted THEN <<used>> ELSE <<>>)
        /\ made = Usage(counted) \o <<last, end>>
    BY DEF Usage, Finish
  <2> HIDE DEF used, last, end, made, Cargo, Carry, Plain, Chunks, Kinds
  <2>5. /\ Usage(counted) \in Seq(Cargo) /\ n = (IF counted THEN 1 ELSE 0)
        /\ made \in Seq(Cargo) /\ Len(made) = n + 2
        /\ counted => made[1] = used
        /\ made[n + 1] = last /\ made[n + 2] = end
    <3>1. CASE counted
      <4>1. Usage(counted) = <<used>> /\ made = <<used>> \o <<last, end>>
        BY <2>4, <3>1
      <4>2. /\ <<used>> \in Seq(Cargo) /\ Len(<<used>>) = 1
            /\ <<last, end>> \in Seq(Cargo) /\ Len(<<last, end>>) = 2
        BY <2>3
      <4>3. /\ made \in Seq(Cargo) /\ Len(made) = 1 + 2
            /\ \A k \in 1 .. 1 + 2 :
                  made[k] = IF k <= 1 THEN <<used>>[k] ELSE <<last, end>>[k - 1]
        BY <4>1, <4>2, ConcatProperties
      <4>4. made[1] = <<used>>[1] /\ made[2] = <<last, end>>[1] /\ made[3] = <<last, end>>[2]
        BY <4>3
      <4>5. made[1] = used /\ made[2] = last /\ made[3] = end
        BY <4>4
      <4>6. n = 1
        BY <4>1, <4>2
      <4> HIDE DEF n
      <4>7. made[n + 1] = last /\ made[n + 2] = end
        BY <4>5, <4>6
      <4> QED BY <3>1, <4>1, <4>2, <4>3, <4>5, <4>6, <4>7
    <3>2. CASE ~counted
      <4>1. Usage(counted) = <<>> /\ made = <<>> \o <<last, end>> /\ n = 0
        BY <2>4, <3>2, EmptySeq
      <4>2. <<last, end>> \in Seq(Cargo) /\ Len(<<last, end>>) = 2
        BY <2>3
      <4>3. made = <<last, end>>
        BY <4>1, <4>2, ConcatEmptySeq
      <4>4. made[1] = last /\ made[2] = end
        BY <4>3
      <4> HIDE DEF n
      <4>5. made[n + 1] = last /\ made[n + 2] = end
        BY <4>1, <4>4
      <4>6. Usage(counted) \in Seq(Cargo) /\ made \in Seq(Cargo) /\ Len(made) = n + 2
        BY <4>1, <4>2, <4>3, EmptySeq
      <4> QED BY <3>2, <4>1, <4>5, <4>6
    <3> QED BY <3>1, <3>2
  <2> QED BY <2>5 DEF used, last, end, made
<1> HIDE DEF Cargo, Carry, Plain
<1> QED BY <1>1, <1>2, <1>3, <1>4

\* What has been supplied after n items: the missing ones among them, in order.
SuppliedSo(n) ==
    LET seq == Supplied[n] IN
    /\ seq \in Seq(Cargo)
    /\ \A k \in 1 .. Len(seq) :
          /\ seq[k].item \in 1 .. n /\ seq[k].item \in Positions
          /\ Missing(seq[k].item) /\ seq[k] = Supply(seq[k].item)
    /\ \A j, k \in 1 .. Len(seq) : j < k => seq[j].item < seq[k].item
    /\ \A i \in Positions : i <= n /\ Missing(i) => \E k \in 1 .. Len(seq) : seq[k].item = i

LEMMA SupplyItem ==
    ASSUME output \in Outputs, NEW i \in Positions
    PROVE  Supply(i).item = i /\ Supply(i).whole
BY DEF Supply, TextChunk, CallArguments, Carry

LEMMA SuppliedFacts ==
    ASSUME ItemsKnown
    PROVE  \A n \in 0 .. Len(output) : SuppliedSo(n)
<1>0. output \in Outputs
  BY DEF ItemsKnown
<1> DEFINE Bad == {n \in 0 .. Len(output) : ~SuppliedSo(n)}
<1> SUFFICES ASSUME Bad # {} PROVE FALSE
  OBVIOUS
<1>1. Len(output) \in Nat /\ Positions = 1 .. Len(output)
  BY <1>0, OutputItems
<1>2. PICK n \in Bad : \A m \in Bad : n <= m
  <2>1. Bad \in SUBSET Nat
    BY <1>1
  <2> HIDE DEF Bad
  <2> QED BY <2>1, Least
<1>3. n \in 0 .. Len(output) /\ n \in Nat /\ ~SuppliedSo(n) /\ Supplied[n] = SuppliedNext(Supplied, n)
  BY <1>0, <1>1, <1>2, SuppliedUnfolds
<1>4. CASE n = 0
  <2>1. Supplied[n] = <<>> /\ <<>> \in Seq(Cargo) /\ Len(<<>>) = 0
    BY <1>3, <1>4, EmptySeq DEF SuppliedNext
  <2>2. SuppliedSo(n)
    BY <1>1, <1>4, <2>1 DEF SuppliedSo
  <2> QED BY <1>3, <2>2
<1>5. CASE n # 0
  <2>1. n \in Positions /\ n - 1 \in 0 .. Len(output) /\ n - 1 \in Nat
    BY <1>1, <1>3, <1>5
  <2>2. SuppliedSo(n - 1)
    BY <1>2, <2>1
  <2> DEFINE seq == Supplied[n - 1]
  <2>3. /\ seq \in Seq(Cargo) /\ Len(seq) \in Nat
        /\ \A k \in 1 .. Len(seq) :
              /\ seq[k].item \in 1 .. n - 1 /\ seq[k].item \in Positions
              /\ Missing(seq[k].item) /\ seq[k] = Supply(seq[k].item)
        /\ \A j, k \in 1 .. Len(seq) : j < k => seq[j].item < seq[k].item
        /\ \A i \in Positions : i <= n - 1 /\ Missing(i) => \E k \in 1 .. Len(seq) : seq[k].item = i
    BY <2>2 DEF SuppliedSo
  <2> HIDE DEF seq
  <2>4. CASE Missing(n)
    <3>1. Supplied[n] = Append(seq, Supply(n))
      BY <1>3, <1>5, <2>4 DEF SuppliedNext, seq
    <3>2. Supply(n) \in Cargo /\ Supply(n).item = n
      BY <1>0, <2>1, CargoTypes, SupplyItem
    <3> DEFINE longer == Append(seq, Supply(n))
    <3>3. /\ longer \in Seq(Cargo) /\ Len(longer) = Len(seq) + 1
          /\ \A k \in 1 .. Len(seq) : longer[k] = seq[k]
          /\ longer[Len(seq) + 1] = Supply(n)
      BY <2>3, <3>2
    <3> HIDE DEF longer
    <3>4. ASSUME NEW k \in 1 .. Len(longer)
          PROVE  /\ longer[k].item \in 1 .. n /\ longer[k].item \in Positions
                 /\ Missing(longer[k].item) /\ longer[k] = Supply(longer[k].item)
      <4>1. CASE k = Len(seq) + 1
        BY <2>1, <2>4, <3>2, <3>3, <4>1, <1>3, <1>5
      <4>2. CASE k # Len(seq) + 1
        <5>1. k \in 1 .. Len(seq)
          BY <2>3, <3>3, <4>2
        <5> QED BY <2>3, <3>3, <5>1, <1>3
      <4> QED BY <4>1, <4>2
    <3>5. ASSUME NEW j \in 1 .. Len(longer), NEW k \in 1 .. Len(longer), j < k
          PROVE  longer[j].item < longer[k].item
      <4>1. j \in 1 .. Len(seq)
        BY <2>3, <3>3, <3>5
      <4>2. CASE k = Len(seq) + 1
        BY <2>3, <3>2, <3>3, <4>1, <4>2, <1>3
      <4>3. CASE k # Len(seq) + 1
        <5>1. k \in 1 .. Len(seq)
          BY <2>3, <3>3, <4>3
        <5> QED BY <2>3, <3>3, <3>5, <4>1, <5>1
      <4> QED BY <4>2, <4>3
    <3>6. ASSUME NEW i \in Positions, i <= n, Missing(i)
          PROVE  \E k \in 1 .. Len(longer) : longer[k].item = i
      <4>1. CASE i = n
        <5>1. Len(seq) + 1 \in 1 .. Len(longer)
          BY <2>3, <3>3
        <5> QED BY <3>2, <3>3, <4>1, <5>1
      <4>2. CASE i # n
        <5>1. i <= n - 1
          BY <1>1, <1>3, <3>6, <4>2
        <5>2. PICK k \in 1 .. Len(seq) : seq[k].item = i
          BY <2>3, <3>6, <5>1
        <5>3. k \in 1 .. Len(longer)
          BY <2>3, <3>3
        <5> QED BY <3>3, <5>2, <5>3
      <4> QED BY <4>1, <4>2
    <3>7. SuppliedSo(n)
      BY <3>1, <3>3, <3>4, <3>5, <3>6 DEF SuppliedSo, longer
    <3> QED BY <1>3, <3>7
  <2>5. CASE ~Missing(n)
    <3>1. Supplied[n] = seq
      BY <1>3, <1>5, <2>5 DEF SuppliedNext, seq
    <3>2. \A i \in Positions : i <= n /\ Missing(i) => i <= n - 1
      BY <1>1, <1>3, <2>5
    <3>3. \A i \in 1 .. n - 1 : i \in 1 .. n
      BY <1>3
    <3>4. SuppliedSo(n)
      BY <2>3, <3>1, <3>2, <3>3 DEF SuppliedSo
    <3> QED BY <1>3, <3>4
  <2> QED BY <2>4, <2>5
<1> QED BY <1>4, <1>5

\* All that a terminal event makes.
LEMMA SuppliesType ==
    ASSUME ItemsKnown, NEW full \in BOOLEAN, NEW status, NEW counted \in BOOLEAN
    PROVE  Supplies(full) \in Seq(Cargo) /\ Supplies(full) \o Finish(status, counted) \in Seq(Cargo)
<1>1. Len(output) \in 0 .. Len(output)
  BY OutputItems DEF ItemsKnown
<1>2. Supplied[Len(output)] \in Seq(Cargo)
  BY <1>1, SuppliedFacts DEF SuppliedSo
<1>3. Supplies(full) \in Seq(Cargo)
  BY <1>2, EmptySeq DEF Supplies
<1>4. Finish(status, counted) \in Seq(Cargo)
  BY CargoTypes, Zenon
<1> QED BY <1>3, <1>4

-----------------------------------------------------------------------------
(* Types *)

\* The converter at the other end does what the converter does.
LEMMA CodexConverts ==
    ASSUME CodexTypeOK, [CodexNext]_<<vars, codexVars>>
    PROVE  [ConverterNext]_vars
<1>1. CASE ConverterReceives
  <2>1. Head(pending) \in Cargo
    BY <1>1 DEF ConverterReceives, CodexTypeOK
  <2>2. Head(pending).chunk \in Chunks
    BY <2>1 DEF Cargo
  <2> QED BY <1>1, <2>2 DEF ConverterReceives, ConverterNext
<1>2. CASE ChannelEnds
  BY <1>2 DEF ChannelEnds, ConverterNext
<1>3. CASE ConverterWrites
  BY <1>3 DEF ConverterWrites, ConverterNext
<1>4. CASE UNCHANGED vars
  BY <1>4
<1>5. CASE UNCHANGED <<vars, codexVars>>
  BY <1>5
<1>6. CASE \E i \in Positions :
              OutputItemAdded(i) \/ OutputTextDelta(i) \/ ArgumentsDelta(i) \/ OutputItemDone(i)
  BY <1>6 DEF OutputItemAdded, OutputTextDelta, ArgumentsDelta, OutputItemDone, Delta, unseen
<1>7. CASE \E status \in Statuses, full, counted \in BOOLEAN : Terminal(status, full, counted)
  BY <1>7 DEF Terminal
<1>8. CASE Fails \/ BodyEnds
  BY <1>8 DEF Fails, BodyEnds, unseen
<1> QED BY <1>1, <1>2, <1>3, <1>5, <1>6, <1>7, <1>8 DEF CodexNext

\* The types of what the converter does not have.
EventsTypeOK ==
    /\ output \in Outputs
    /\ backend \in Backends /\ manners \subseteq Manners
    /\ streamed \subseteq Positions
    /\ itemIndex \in [{0} \cup Positions -> Calls \cup {Nobody}]
    /\ hasToolUse \in BOOLEAN /\ guard \subseteq {"terminal", "failed"}
    /\ pending \in Seq(Cargo)
    /\ forwarded \in [Positions -> [parts : Nat, wholes : Nat]]
    /\ reason \in Reasons \cup {"none"}

\* The items stay, and with them what is made of them.
LEMMA SameOutput ==
    output' = output => Positions' = Positions /\ Backends' = Backends /\ Cargo' = Cargo
BY DEF Positions, Backends, Cargo

LEMMA MannersType ==
    /\ \A i : MannersOf(i) \subseteq Manners
    /\ \A full, counted : MannersOfTerminal(full, counted) \subseteq Manners
BY DEF MannersOf, MannersOfTerminal, Manners

LEMMA OneCargo == \A cargo \in Cargo : <<cargo>> \in Seq(Cargo)
OBVIOUS

LEMMA EventsTypeStep ==
    ASSUME EventsTypeOK, [CodexNext]_<<vars, codexVars>>
    PROVE  EventsTypeOK'
<1> USE DEF EventsTypeOK
<1>1. output' = output /\ Positions' = Positions /\ Backends' = Backends /\ Cargo' = Cargo
  <2>1. output' = output
    BY DEF CodexNext, codexVars, unseen, OutputItemAdded, OutputTextDelta, ArgumentsDelta, Delta,
           OutputItemDone, Terminal, Fails, BodyEnds, ConverterReceives, ChannelEnds, ConverterWrites
  <2> QED BY <2>1, SameOutput
<1>0. ItemsKnown
  BY DEF ItemsKnown
<1>2. CASE UNCHANGED codexVars
  BY <1>1, <1>2 DEF codexVars
<1>3. ASSUME NEW i \in Positions, OutputItemAdded(i)
      PROVE  EventsTypeOK'
  <2>1. backend' \in Backends
    BY <1>3 DEF OutputItemAdded, Backends
  <2>2. pending' \in Seq(Cargo)
    BY <1>0, <1>3, CargoTypes DEF OutputItemAdded
  <2>3. itemIndex' \in [{0} \cup Positions -> Calls \cup {Nobody}]
    BY <1>3, IdType, OutputItems DEF OutputItemAdded
  <2> QED BY <1>1, <1>3, <2>1, <2>2, <2>3, MannersType DEF OutputItemAdded, unseen
<1>4. ASSUME NEW i \in Positions, Delta(i)
      PROVE  backend' \in Backends /\ streamed' \subseteq Positions
  <2>1. backend.deltas[i] + 1 \in Nat
    BY <1>4 DEF Backends
  <2> QED BY <1>4, <2>1 DEF Delta, Backends
<1>5. ASSUME NEW i \in Positions, OutputTextDelta(i)
      PROVE  EventsTypeOK'
  <2>1. pending' \in Seq(Cargo)
    <3>1. TextChunk(i, FALSE) \in Cargo
      <4>1. FALSE \in BOOLEAN /\ ItemsKnown
        BY <1>0
      <4> QED BY <4>1, CargoTypes, Zenon
    <3>2. pending' = <<TextChunk(i, FALSE)>>
      BY <1>5 DEF OutputTextDelta
    <3> QED BY <3>1, <3>2, OneCargo, Zenon
  <2>2. Delta(i)
    BY <1>5 DEF OutputTextDelta
  <2> QED BY <1>1, <1>4, <1>5, <2>1, <2>2, MannersType DEF OutputTextDelta, Delta, unseen
<1>6. ASSUME NEW i \in Positions, ArgumentsDelta(i)
      PROVE  EventsTypeOK'
  <2>1. pending' \in Seq(Cargo)
    <3>1. output[i].index \in Calls
      BY OutputItems
    <3>2. CallArguments(i, output[i].index, FALSE) \in Cargo
      <4>1. FALSE \in BOOLEAN /\ ItemsKnown
        BY <1>0
      <4> QED BY <3>1, <4>1, CargoTypes, Zenon
    <3>3. pending' = <<CallArguments(i, output[i].index, FALSE)>> \/ pending' = <<>>
      BY <1>6 DEF ArgumentsDelta
    <3> QED BY <3>2, <3>3, OneCargo, EmptySeq, Zenon
  <2>2. Delta(i)
    BY <1>6 DEF ArgumentsDelta
  <2>3. manners' \subseteq Manners
    BY <1>6, MannersType DEF ArgumentsDelta, Manners
  <2> QED BY <1>1, <1>4, <2>1, <2>2, <2>3 DEF Delta, unseen
<1>7. ASSUME NEW i \in Positions, OutputItemDone(i)
      PROVE  EventsTypeOK'
  <2>1. backend' \in Backends
    BY <1>7 DEF OutputItemDone, Backends
  <2> QED BY <1>1, <1>7, <2>1 DEF OutputItemDone, unseen
<1>8. ASSUME NEW status \in Statuses, NEW full \in BOOLEAN, NEW counted \in BOOLEAN,
             Terminal(status, full, counted)
      PROVE  EventsTypeOK'
  <2>1. backend' \in Backends
    <3>1. backend.terminals + 1 \in 0 .. MaxTerminals
      BY <1>8, TerminalsAssumption DEF Terminal, Backends
    <3> QED BY <1>8, <3>1 DEF Terminal, Backends
  <2>2. pending' \in Seq(Cargo)
    BY <1>0, <1>8, SuppliesType DEF Terminal
  <2> QED BY <1>1, <1>8, <2>1, <2>2, MannersType DEF Terminal
<1>9. CASE Fails
  BY <1>0, <1>1, <1>9, CargoTypes DEF Fails
<1>10. CASE BodyEnds
  <2>1. backend' \in Backends
    BY <1>10 DEF BodyEnds, Backends
  <2>2. pending' \in Seq(Cargo)
    BY <1>0, <1>10, CargoTypes DEF BodyEnds
  <2> QED BY <1>1, <1>10, <2>1, <2>2 DEF BodyEnds, unseen
<1>11. CASE ConverterReceives
  <2>1. Head(pending) \in Cargo /\ Tail(pending) \in Seq(Cargo)
    BY <1>11 DEF ConverterReceives
  <2>2. forwarded' \in [Positions -> [parts : Nat, wholes : Nat]]
    <3>1. PICK cargo \in Cargo : forwarded' = Forward(cargo)
      BY <1>11, <2>1 DEF ConverterReceives
    <3>2. cargo.item \in {0} \cup Positions
      BY DEF Cargo
    <3>3. forwarded \in [Positions -> [parts : Nat, wholes : Nat]]
      OBVIOUS
    <3>4. cargo.item # 0 => cargo.item \in Positions /\ forwarded[cargo.item].parts + 1 \in Nat
                            /\ forwarded[cargo.item].wholes + 1 \in Nat
      BY <3>2, <3>3
    <3> QED BY <3>1, <3>3, <3>4 DEF Forward
  <2>3. reason' \in Reasons \cup {"none"}
    BY <1>11, <2>1 DEF ConverterReceives, Cargo
  <2> QED BY <1>1, <1>11, <2>1, <2>2, <2>3 DEF ConverterReceives
<1> QED
  BY <1>2, <1>3, <1>5, <1>6, <1>7, <1>8, <1>9, <1>10, <1>11
     DEF CodexNext, codexVars, ChannelEnds, ConverterWrites

LEMMA EventsTypeInit == CodexInit => EventsTypeOK
<1> SUFFICES ASSUME CodexInit PROVE EventsTypeOK
  OBVIOUS
<1>1. backend \in Backends
  BY TerminalsAssumption DEF CodexInit, Backends
<1> QED BY <1>1, EmptySeq DEF CodexInit, EventsTypeOK

LEMMA CodexTypes == CodexTypeOK <=> ConverterTypeOK /\ EventsTypeOK
BY DEF CodexTypeOK, EventsTypeOK

-----------------------------------------------------------------------------
(* What is on its way *)

\* What a terminal event makes: what was not streamed, in order, then usage if it
\* came with it, finish reason and end, the last two after m events.
TerminalSo(made, n, m, full, status, counted) ==
    /\ m = IF counted THEN n + 1 ELSE n
    /\ Len(made) = m + 2
    /\ \A k \in 1 .. n :
          /\ full /\ made[k].item \in Positions /\ Missing(made[k].item)
          /\ made[k] = Supply(made[k].item)
    /\ \A j, k \in 1 .. n : j < k => made[j].item < made[k].item
    /\ full => \A i \in Positions : Missing(i) => \E k \in 1 .. n : made[k].item = i
    /\ counted => made[n + 1] = Carry(Plain("usage"), 0, FALSE)
    /\ made[m + 1] = [Carry(Plain("finish"), 0, FALSE) EXCEPT !.reason = FinishReason(status, hasToolUse)]
    /\ made[m + 2] = Carry(Plain("done"), 0, FALSE)

LEMMA TerminalMakes ==
    ASSUME ItemsKnown, NEW full \in BOOLEAN, NEW status, NEW counted \in BOOLEAN
    PROVE  \E made \in Seq(Cargo), n, m \in Nat :
               /\ made = Supplies(full) \o Finish(status, counted)
               /\ TerminalSo(made, n, m, full, status, counted)
<1> DEFINE first == Supplies(full)
           last == Finish(status, counted)
           made == first \o last
           u == Len(Usage(counted))
<1>0. output \in Outputs
  BY DEF ItemsKnown
<1>1. first \in Seq(Cargo) /\ last \in Seq(Cargo) /\ Len(last) = u + 2 /\ Len(first) \in Nat
      /\ u = (IF counted THEN 1 ELSE 0)
  BY SuppliesType, CargoTypes, LenProperties
<1>2. /\ counted => last[1] = Carry(Plain("usage"), 0, FALSE)
      /\ last[u + 1] = [Carry(Plain("finish"), 0, FALSE) EXCEPT !.reason = FinishReason(status, hasToolUse)]
      /\ last[u + 2] = Carry(Plain("done"), 0, FALSE)
  BY CargoTypes
<1>3. /\ \A k \in 1 .. Len(first) :
            /\ full /\ first[k].item \in Positions /\ Missing(first[k].item)
            /\ first[k] = Supply(first[k].item)
      /\ \A j, k \in 1 .. Len(first) : j < k => first[j].item < first[k].item
      /\ full => \A i \in Positions : Missing(i) => \E k \in 1 .. Len(first) : first[k].item = i
  <2>1. CASE full
    <3>1. first = Supplied[Len(output)] /\ SuppliedSo(Len(output))
      BY <1>0, <2>1, SuppliedFacts, OutputItems DEF Supplies
    <3>2. \A i \in Positions : i <= Len(output)
      BY <1>0, OutputItems
    <3> HIDE DEF first
    <3> QED BY <2>1, <3>1, <3>2 DEF SuppliedSo
  <2>2. CASE ~full
    <3>1. Len(first) = 0
      BY <2>2, EmptySeq DEF Supplies
    <3> HIDE DEF first
    <3> QED BY <2>2, <3>1
  <2> QED BY <2>1, <2>2
<1> HIDE DEF first, last, u
<1>4. /\ Len(made) = Len(first) + u + 2
      /\ \A k \in 1 .. Len(first) : made[k] = first[k]
      /\ \A k \in 1 .. u + 2 : made[Len(first) + k] = last[k]
  <2>1. \A i \in 1 .. Len(first) + Len(last) :
            made[i] = IF i <= Len(first) THEN first[i] ELSE last[i - Len(first)]
    BY <1>1, ConcatProperties
  <2>2. Len(made) = Len(first) + Len(last)
    BY <1>1, ConcatProperties
  <2> HIDE DEF made
  <2>3. \A k \in 1 .. Len(first) : made[k] = first[k]
    BY <1>1, <2>1
  <2>4. \A k \in 1 .. u + 2 : made[Len(first) + k] = last[k]
    BY <1>1, <2>1
  <2> QED BY <1>1, <2>2, <2>3, <2>4
<1>6. made \in Seq(Cargo)
  BY <1>1, ConcatProperties
<1> HIDE DEF made
<1>5. /\ \A k \in 1 .. Len(first) :
            /\ full /\ made[k].item \in Positions /\ Missing(made[k].item)
            /\ made[k] = Supply(made[k].item)
      /\ \A j, k \in 1 .. Len(first) : j < k => made[j].item < made[k].item
      /\ full => \A i \in Positions : Missing(i) => \E k \in 1 .. Len(first) : made[k].item = i
  BY <1>3, <1>4
<1> DEFINE n == Len(first)
           m == n + u
<1>7. /\ n \in Nat /\ m \in Nat /\ m = (IF counted THEN n + 1 ELSE n) /\ Len(made) = m + 2
      /\ counted => u = 1 /\ 1 \in 1 .. u + 2
      /\ u + 1 \in 1 .. u + 2 /\ u + 2 \in 1 .. u + 2
      /\ n + (u + 1) = m + 1 /\ n + (u + 2) = m + 2
  BY <1>1, <1>4
<1>8. /\ counted => made[n + 1] = Carry(Plain("usage"), 0, FALSE)
      /\ made[m + 1] = [Carry(Plain("finish"), 0, FALSE) EXCEPT !.reason = FinishReason(status, hasToolUse)]
      /\ made[m + 2] = Carry(Plain("done"), 0, FALSE)
  <2>1. /\ counted => made[n + 1] = last[1]
        /\ made[n + (u + 1)] = last[u + 1]
        /\ made[n + (u + 2)] = last[u + 2]
    BY <1>4, <1>7
  <2>2. made[m + 1] = last[u + 1] /\ made[m + 2] = last[u + 2]
    BY <1>7, <2>1
  <2> QED BY <1>2, <2>1, <2>2
<1> HIDE DEF n, m
<1>9. TerminalSo(made, n, m, full, status, counted)
  BY <1>5, <1>7, <1>8 DEF TerminalSo, n
<1> QED BY <1>6, <1>7, <1>9 DEF made, first, last

\* The converter takes the first of what is on its way.
LEMMA Shifts ==
    ASSUME NEW seq \in Seq(Cargo), seq # <<>>
    PROVE  /\ Len(seq) \in Nat \ {0} /\ Head(seq) = seq[1] /\ seq[1] \in Cargo
           /\ Tail(seq) \in Seq(Cargo) /\ Len(Tail(seq)) = Len(seq) - 1
           /\ \A k \in 1 .. Len(Tail(seq)) : Tail(seq)[k] = seq[k + 1] /\ k + 1 \in 1 .. Len(seq)
BY HeadTailProperties

LEMMA SupplyKind ==
    ASSUME output \in Outputs, NEW i \in Positions
    PROVE  Supply(i).chunk.kind = IF IsCall(i) THEN "tool" ELSE "text"
BY DEF Supply, TextChunk, CallArguments, Carry, Plain, ToolDelta

\* The channel has been closed.
AtEnd == place \in {"finish", "returned"} \/ (place \in {"start", "ping"} /\ chunk = NoChunk)

\* The finish reason is in the converter's hands or behind it.
Ending == finished \/ (InHand /\ chunk.kind = "finish")

\* The first terminal event has usage, or none has.
Timely == "belated" \notin manners

UsageKnown ==
    place # "failed" =>
        /\ AtEnd => pending = <<>>
        /\ place = "returned" => finished
        /\ backend.terminals = 0 =>
              /\ Ending => AtEnd
              /\ \A k \in 1 .. Len(pending) : pending[k].chunk.kind # "finish"
        /\ Timely =>
              /\ finished /\ usage => reported
              /\ ~usage /\ InHand /\ chunk.kind = "usage" => ~Ending
              /\ \A k \in 1 .. Len(pending) : ~usage /\ pending[k].chunk.kind = "usage" =>
                    ~Ending /\ \A j \in 1 .. k - 1 : pending[j].chunk.kind # "finish"

CodexInv == ConverterInv /\ EventsTypeOK /\ UsageKnown

\* What is neither usage nor finish reason.
Else(seq) == \A k \in 1 .. Len(seq) : seq[k].chunk.kind \notin {"usage", "finish"}

LEMMA ElseAlone ==
    /\ Else(<<>>)
    /\ \A cargo : cargo.chunk.kind \notin {"usage", "finish"} => Else(<<cargo>>)
BY DEF Else

\* A terminal event puts its usage before its finish reason.
LEMMA UsageFirst ==
    ASSUME ItemsKnown, NEW full \in BOOLEAN, NEW status, NEW counted \in BOOLEAN
    PROVE  \E made :
               /\ made = Supplies(full) \o Finish(status, counted)
               /\ \A k \in 1 .. Len(made) : made[k].chunk.kind = "usage" =>
                     counted /\ \A j \in 1 .. k - 1 : made[j].chunk.kind # "finish"
<1>1. PICK made \in Seq(Cargo), n \in Nat, m \in Nat :
          /\ made = Supplies(full) \o Finish(status, counted)
          /\ TerminalSo(made, n, m, full, status, counted)
  BY TerminalMakes
<1>2. \A k \in 1 .. n : made[k].chunk.kind \in {"tool", "text"}
  <2>1. output \in Outputs
    BY DEF ItemsKnown
  <2>2. \A k \in 1 .. n : made[k].item \in Positions /\ made[k] = Supply(made[k].item)
    BY <1>1, Zenon DEF TerminalSo
  <2>3. \A i \in Positions : Supply(i).chunk.kind \in {"tool", "text"}
    BY <2>1, SupplyKind
  <2> QED BY <2>2, <2>3
<1>3. made[m + 1].chunk.kind = "finish" /\ made[m + 2].chunk.kind = "done"
  BY <1>1 DEF TerminalSo, Carry, Plain
<1>4. m = (IF counted THEN n + 1 ELSE n) /\ Len(made) = m + 2
  BY <1>1 DEF TerminalSo
<1>5. ASSUME NEW k \in 1 .. Len(made), made[k].chunk.kind = "usage"
      PROVE  counted /\ \A j \in 1 .. k - 1 : made[j].chunk.kind # "finish"
  <2>1. k # m + 1 /\ k # m + 2 /\ k \notin 1 .. n
    BY <1>2, <1>3, <1>5
  <2>2. counted /\ k = n + 1
    BY <1>4, <1>5, <2>1
  <2>3. \A j \in 1 .. k - 1 : j \in 1 .. n
    BY <2>2
  <2> QED BY <1>2, <2>2, <2>3
<1> QED BY <1>1, <1>5

LEMMA UsageStep ==
    ASSUME ConverterInv, EventsTypeOK, UsageKnown, manners \subseteq manners',
           [CodexNext]_<<vars, codexVars>>
    PROVE  UsageKnown'
<1>0. ItemsKnown /\ backend.terminals \in Nat
  BY TerminalsAssumption DEF ItemsKnown, EventsTypeOK, Backends
<1>a. Timely' => Timely
  BY DEF Timely
<1>1. ASSUME UNCHANGED vars, Quiet, Else(pending'), backend'.terminals = backend.terminals
      PROVE  UsageKnown'
  <2>1. UNCHANGED <<place, chunk, finished, usage, reported>> /\ place = "receive"
    BY <1>1 DEF vars, Quiet
  <2>2. (Ending' <=> Ending) /\ ~AtEnd' /\ ~InHand'
    BY <2>1 DEF Ending, InHand, AtEnd
  <2>3. backend.terminals = 0 => ~Ending
    BY <2>1 DEF UsageKnown, AtEnd
  <2>4. Timely' => (finished /\ usage => reported)
    BY <1>a, <2>1 DEF UsageKnown
  <2> QED BY <1>1, <2>1, <2>2, <2>3, <2>4 DEF UsageKnown, Else
<1>2. CASE UNCHANGED <<vars, codexVars>>
  BY <1>2 DEF vars, codexVars, UsageKnown, AtEnd, Ending, InHand, Timely
<1>3. ASSUME NEW i \in Positions,
             OutputItemAdded(i) \/ OutputTextDelta(i) \/ ArgumentsDelta(i)
      PROVE  UsageKnown'
  <2>1. UNCHANGED vars /\ Quiet
    BY <1>3 DEF OutputItemAdded, OutputTextDelta, ArgumentsDelta, Delta, unseen
  <2>2. pending' = <<>> \/ \E cargo : /\ pending' = <<cargo>>
                                     /\ cargo.chunk.kind \notin {"usage", "finish"}
    BY <1>3 DEF OutputItemAdded, OutputTextDelta, ArgumentsDelta, CallStart, TextChunk, CallArguments,
                Carry, Plain, ToolDelta
  <2>3. Else(pending')
    BY <2>2, ElseAlone
  <2>4. backend'.terminals = backend.terminals
    BY <1>3 DEF OutputItemAdded, OutputTextDelta, ArgumentsDelta, Delta, EventsTypeOK, Backends
  <2> QED BY <1>1, <2>1, <2>3, <2>4
<1>4. ASSUME NEW i \in Positions, OutputItemDone(i)
      PROVE  UsageKnown'
  <2>1. UNCHANGED vars /\ Quiet /\ pending' = <<>> /\ backend'.terminals = backend.terminals
    BY <1>4 DEF OutputItemDone, unseen, Quiet, EventsTypeOK, Backends
  <2> QED BY <1>1, <2>1, ElseAlone
<1>5. ASSUME NEW status \in Statuses, NEW full \in BOOLEAN, NEW counted \in BOOLEAN,
             Terminal(status, full, counted)
      PROVE  UsageKnown'
  <2>1. /\ UNCHANGED vars /\ Quiet /\ pending' = Supplies(full) \o Finish(status, counted)
        /\ MannersOfTerminal(full, counted) \subseteq manners'
    BY <1>5 DEF Terminal
  <2>2. UNCHANGED <<place, chunk, finished, usage, reported>> /\ place = "receive"
    BY <2>1 DEF vars, Quiet
  <2>3. (Ending' <=> finished) /\ (Ending <=> finished) /\ ~AtEnd /\ ~AtEnd' /\ ~InHand'
    BY <2>2 DEF Ending, InHand, AtEnd
  <2>4. backend'.terminals = backend.terminals + 1
    BY <1>5 DEF Terminal, EventsTypeOK, Backends
  <2>5. Timely' /\ counted /\ ~usage => ~finished
    <3>1. Timely' /\ counted /\ ~usage => ~(backend.terminals > 0)
      BY <2>1 DEF MannersOfTerminal, Timely
    <3> QED BY <1>0, <2>2, <2>3, <3>1 DEF UsageKnown
  <2>6. \A k \in 1 .. Len(pending') : pending'[k].chunk.kind = "usage" =>
            counted /\ \A j \in 1 .. k - 1 : pending'[j].chunk.kind # "finish"
    <3>1. PICK made :
             /\ made = Supplies(full) \o Finish(status, counted)
             /\ \A k \in 1 .. Len(made) : made[k].chunk.kind = "usage" =>
                   counted /\ \A j \in 1 .. k - 1 : made[j].chunk.kind # "finish"
      BY <1>0, UsageFirst, Zenon
    <3> QED BY <2>1, <3>1, Zenon
  <2>7. Timely' => (finished /\ usage => reported)
    BY <1>a, <2>2 DEF UsageKnown
  <2>8. backend'.terminals # 0
    BY <1>0, <2>4
  <2> QED BY <2>2, <2>3, <2>5, <2>6, <2>7, <2>8 DEF UsageKnown
<1>6. CASE Fails
  <2>1. UNCHANGED <<vars, backend>> /\ Quiet /\ pending' = <<Failure>> /\ Failure.chunk.kind = "error"
    BY <1>6 DEF Fails, Failure, Carry, Plain
  <2> QED BY <1>1, <2>1, ElseAlone
<1>7. CASE BodyEnds
  <2>1. /\ UNCHANGED vars /\ Quiet /\ (pending' = <<Failure>> \/ pending' = <<>>)
        /\ Failure.chunk.kind = "error" /\ backend'.terminals = backend.terminals
    BY <1>7 DEF BodyEnds, unseen, Failure, Carry, Plain, EventsTypeOK, Backends
  <2> QED BY <1>1, <2>1, ElseAlone
<1>8. CASE ConverterReceives
  <2>1. /\ pending \in Seq(Cargo) /\ pending # <<>> /\ pending' = Tail(pending)
        /\ Receive(pending[1].chunk) /\ UNCHANGED <<backend, manners>>
    BY <1>8, Shifts DEF ConverterReceives, EventsTypeOK
  <2>2. /\ Len(pending) \in Nat /\ Len(pending') \in Nat
        /\ \A k \in 1 .. Len(pending') : pending'[k] = pending[k + 1] /\ k + 1 \in 1 .. Len(pending)
        /\ 1 \in 1 .. Len(pending)
    BY <2>1, Shifts
  <2> DEFINE c == pending[1].chunk
  <2>3. /\ place = "receive" /\ chunk' = c /\ UNCHANGED <<finished, usage, reported>>
        /\ place' = IF c.kind = "error" THEN "failed"
                    ELSE IF c.kind = "done" THEN "receive"
                    ELSE IF started THEN "chunk" ELSE "start"
    BY <2>1 DEF Receive, converterVars
  <2>4. ~AtEnd /\ ~AtEnd' /\ (Ending <=> finished) /\ (Ending' => finished \/ c.kind = "finish")
    BY <2>3, NoChunkType DEF AtEnd, Ending, InHand
  <2>5. backend.terminals = 0 => ~finished /\ c.kind # "finish"
    BY <2>2, <2>3, <2>4 DEF UsageKnown
  <2>6. backend.terminals = 0 => \A k \in 1 .. Len(pending') : pending'[k].chunk.kind # "finish"
    BY <2>2, <2>3 DEF UsageKnown
  <2>7. Timely => (finished /\ usage => reported)
    BY <2>3 DEF UsageKnown
  <2>8. Timely /\ ~usage /\ c.kind = "usage" => ~finished
    BY <2>2, <2>3, <2>4 DEF UsageKnown
  <2>9. ASSUME Timely, ~usage, NEW k \in 1 .. Len(pending'), pending'[k].chunk.kind = "usage"
        PROVE  /\ ~finished /\ c.kind # "finish"
               /\ \A j \in 1 .. k - 1 : pending'[j].chunk.kind # "finish"
    <3>1. pending[k + 1].chunk.kind = "usage" /\ k + 1 \in 1 .. Len(pending) /\ (k + 1) - 1 = k
      BY <2>2, <2>9
    <3>2. ~finished /\ \A j \in 1 .. k : pending[j].chunk.kind # "finish"
      BY <2>3, <2>4, <2>9, <3>1 DEF UsageKnown
    <3>3. 1 \in 1 .. k /\ \A j \in 1 .. k - 1 : j + 1 \in 1 .. k /\ j \in 1 .. Len(pending')
      BY <2>2
    <3> QED BY <2>2, <3>2, <3>3
  <2> HIDE DEF c
  <2>10. place' # "failed" => UsageKnown'
    <3>1. chunk'.kind = "usage" => (Ending' <=> finished)
      BY <2>3 DEF Ending, InHand
    <3>2. ~finished /\ c.kind # "finish" => ~Ending'
      BY <2>4
    <3>3. UNCHANGED <<finished, usage, reported>> /\ (Timely' <=> Timely) /\ backend' = backend
      BY <2>1, <2>3 DEF Timely
    <3>4. place' # "returned"
      BY <2>3
    <3>5. Timely => /\ finished /\ usage => reported
                    /\ ~usage /\ InHand' /\ chunk'.kind = "usage" => ~Ending'
                    /\ \A k \in 1 .. Len(pending') : ~usage /\ pending'[k].chunk.kind = "usage" =>
                          ~Ending' /\ \A j \in 1 .. k - 1 : pending'[j].chunk.kind # "finish"
      BY <2>3, <2>7, <2>8, <2>9, <3>1, <3>2
    <3>6. backend.terminals = 0 => /\ ~Ending'
                                   /\ \A k \in 1 .. Len(pending') : pending'[k].chunk.kind # "finish"
      BY <2>5, <2>6, <3>2
    <3> QED BY <2>4, <3>3, <3>4, <3>5, <3>6 DEF UsageKnown
  <2> QED BY <2>10 DEF UsageKnown
<1>9. CASE ChannelEnds
  <2>1. /\ UNCHANGED <<codexVars, chunk, finished, usage, reported>> /\ pending = <<>>
        /\ place = "receive" /\ chunk = NoChunk /\ place' \in {"finish", "start"}
    BY <1>9 DEF ChannelEnds, ChannelCloses, converterVars, historyVars, ConverterInv, ChunkInPlace
  <2>2. AtEnd' /\ UNCHANGED <<pending, backend, manners>> /\ Len(pending) = 0
    BY <2>1, EmptySeq DEF AtEnd, codexVars
  <2>3. chunk'.kind = "done"
    BY <2>1, NoChunkType
  <2>4. Timely' => Timely
    BY <1>a
  <2> QED BY <2>1, <2>2, <2>3, <2>4 DEF UsageKnown
<1>10. CASE ConverterWrites
  <2>1. UNCHANGED <<pending, backend, manners>>
    BY <1>10 DEF ConverterWrites, codexVars
  <2>2. UNCHANGED <<pending, backend, manners>> /\ (Timely' <=> Timely)
    BY <2>1 DEF Timely
  <2> USE NoChunkType DEF UsageKnown, Ending, AtEnd, InHand, converterVars, historyVars
  <2>3. CASE WriteMessageStart
    BY <2>2, <2>3 DEF WriteMessageStart
  <2>4. CASE WritePing
    BY <2>2, <2>4 DEF WritePing
  <2>5. CASE Skip
    BY <2>2, <2>5 DEF Skip, NextChunk
  <2>6. CASE CloseTextBlock
    BY <2>2, <2>6 DEF CloseTextBlock
  <2>7. CASE OpenTextBlock
    BY <2>2, <2>7 DEF OpenTextBlock
  <2>8. CASE WriteTextDelta
    BY <2>2, <2>8 DEF WriteTextDelta, NextChunk
  <2>9. CASE NoteCall
    BY <2>2, <2>9 DEF NoteCall, ToArguments, NextChunk
  <2>10. CASE StartToolBlock
    BY <2>2, <2>10 DEF StartToolBlock, ToArguments, NextChunk, ConverterInv, ChunkInPlace
  <2>11. CASE WriteToolInput
    BY <2>2, <2>11 DEF WriteToolInput, NextChunk, ConverterInv, ChunkInPlace
  <2>12. CASE WriteMessageDelta
    BY <2>2, <2>12, EmptySeq DEF WriteMessageDelta, NextChunk
  <2>13. CASE WriteMessageStop
    BY <2>2, <2>13 DEF WriteMessageStop
  <2>14. CASE WriteFails
    BY <2>2, <2>14 DEF WriteFails
  <2>15. CASE Returned
    BY <2>2, <2>15 DEF Returned, vars
  <2>16. ASSUME NEW call \in Calls, CloseToolBlock(call)
        PROVE  UsageKnown'
    BY <2>2, <2>16 DEF CloseToolBlock
  <2> QED
    BY <1>10, <2>3, <2>4, <2>5, <2>6, <2>7, <2>8, <2>9, <2>10, <2>11, <2>12, <2>13, <2>14, <2>15, <2>16
       DEF ConverterWrites
<1> QED
  BY <1>2, <1>3, <1>4, <1>5, <1>6, <1>7, <1>8, <1>9, <1>10 DEF CodexNext

LEMMA MannersGrow ==
    ASSUME [CodexNext]_<<vars, codexVars>>
    PROVE  manners \subseteq manners'
BY DEF CodexNext, codexVars, unseen, OutputItemAdded, OutputTextDelta, ArgumentsDelta, Delta,
       OutputItemDone, Terminal, Fails, BodyEnds, ConverterReceives, ChannelEnds, ConverterWrites

LEMMA CodexInvInit == CodexInit => CodexInv
<1> SUFFICES ASSUME CodexInit PROVE CodexInv
  OBVIOUS
<1>1. ConverterInv
  BY ConverterInvInit DEF CodexInit
<1>2. UsageKnown
  BY EmptySeq DEF CodexInit, ConverterInit, UsageKnown, AtEnd, Ending, InHand
<1> QED BY <1>1, <1>2, EventsTypeInit DEF CodexInv

LEMMA CodexInvStep == CodexInv /\ [CodexNext]_<<vars, codexVars>> => CodexInv'
<1> SUFFICES ASSUME CodexInv, [CodexNext]_<<vars, codexVars>> PROVE CodexInv'
  OBVIOUS
<1>1. [ConverterNext]_vars
  BY CodexConverts, CodexTypes DEF CodexInv, ConverterInv
<1>2. ConverterInv'
  BY <1>1, ConverterInvStep DEF CodexInv
<1>3. EventsTypeOK' /\ UsageKnown'
  BY EventsTypeStep, UsageStep, MannersGrow DEF CodexInv
<1> QED BY <1>2, <1>3 DEF CodexInv

LEMMA CodexInvHolds == CodexSpec => []CodexInv
BY CodexInvInit, CodexInvStep, PTL DEF CodexSpec

\* Every variable keeps to its type, whatever upstream does.
THEOREM CodexTyped == CodexSpec => []CodexTypeOK
<1>1. CodexInv => CodexTypeOK
  BY CodexTypes DEF CodexInv, ConverterInv
<1> QED BY <1>1, CodexInvHolds, PTL

\* The counts of the first terminal event reach the client of every stream that
\* ends, because ToOpenAIStream sends them before the finish reason
\* (dispatch.go:94-110), whatever terminal events follow it; those of a later one
\* do unless the first had none.
THEOREM UsageReachesClient == CodexSpec => []UsageReported
<1>1. CodexInv => UsageReported
  BY DEF CodexInv, UsageKnown, Timely, UsageReported
<1> QED BY <1>1, CodexInvHolds, PTL

\* Whatever upstream does with its events, the client reads one message, and a
\* stream that ends without an error is a whole one (stream.go:74, 135-160).
THEOREM CodexMessageIsWhole == CodexSpec => []OneLifecycle /\ []EndsWhole
<1>1. CodexInv => OneLifecycle /\ EndsWhole
  BY DEF CodexInv, ConverterInv, EndsWhole, PhaseKnown, PhaseNow, ReturnedClosed
<1> QED BY <1>1, CodexInvHolds, PTL

-----------------------------------------------------------------------------
(* An orderly upstream *)

Orderly ==
    /\ manners \cap {"interleaved", "unannounced", "late", "after"} = {}
    /\ \A i \in Positions : IsCall(i) => Carries(i, "added") /\ Carries(i, "listed")

\* Nothing but the end follows the finish reason.
ContentFirst ==
    \A k \in 1 .. Len(pending) : pending[k].chunk.kind \in {"text", "tool", "finish"} =>
        /\ ~upstream.finished
        /\ \A j \in 1 .. k - 1 : pending[j].chunk.kind # "finish"

\* A delta of a call comes first, and is of the call upstream is at.
CallFirst ==
    \A k \in 1 .. Len(pending) : pending[k].chunk.kind = "tool" =>
        /\ k = 1 /\ backend.current \in backend.announced
        /\ pending[k].chunk.call = output[backend.current].index
        /\ Conforms(pending[k].chunk)

\* The finish reason comes with a terminal event.
FinishComesLast ==
    backend.terminals = 0 =>
        /\ ~upstream.finished
        /\ \A k \in 1 .. Len(pending) : pending[k].chunk.kind # "finish"

OnTheWay(i) ==
    pending # <<>> /\ pending[1].chunk.kind = "tool" /\ pending[1].chunk.call = output[i].index

\* Before a terminal event the converter is about to know of all calls announced,
\* none is behind the item upstream is at, and that item, if a call, is what the
\* converter is at or about to be at.
CallsFollow ==
    backend.terminals = 0 =>
        /\ \A call \in upstream.announced : \E i \in backend.announced : output[i].index = call
        /\ \A i \in backend.announced :
              /\ i <= backend.current /\ IsCall(i) /\ itemIndex[i] = output[i].index
              /\ output[i].index \in upstream.announced \/ OnTheWay(i)
        /\ backend.current # 0 /\ IsCall(backend.current) =>
              /\ backend.current \in backend.announced
              /\ upstream.current = output[backend.current].index \/ OnTheWay(backend.current)
              /\ \A k \in 1 .. Len(pending) : pending[k].chunk.kind # "text"

EventsOrderly == ContentFirst /\ CallFirst /\ FinishComesLast /\ CallsFollow

OrderlyInv == Orderly => ConformingInv /\ (place # "failed" => EventsOrderly)

\* In each response, each item has a larger index than the one before.
IndexesIncrease == \A o \in Outputs : \A i, j \in DOMAIN o : i < j => o[i].index < o[j].index

LEMMA LaterItem ==
    ASSUME IndexesIncrease, output \in Outputs, NEW i \in Positions, NEW j \in Positions, i < j
    PROVE  output[i].index < output[j].index
BY DEF IndexesIncrease, Positions

LEMMA FailedStays ==
    ASSUME [CodexNext]_<<vars, codexVars>>
    PROVE  place' # "failed" => place # "failed"
BY DEF CodexNext, codexVars, vars, unseen, Quiet, OutputItemAdded, OutputTextDelta, ArgumentsDelta,
   Delta, OutputItemDone, Terminal, Fails, BodyEnds, ConverterReceives, Receive, ChannelEnds,
   ChannelCloses, ConverterWrites, WriteMessageStart, WritePing, Skip, CloseTextBlock,
   CloseToolBlock, OpenTextBlock, WriteTextDelta, NoteCall, StartToolBlock, WriteToolInput,
   WriteMessageDelta, WriteMessageStop, WriteFails, Returned, ClosesAll, ClosesText

LEMMA OutputStays ==
    ASSUME [CodexNext]_<<vars, codexVars>>
    PROVE  output' = output
BY DEF CodexNext, codexVars, unseen, OutputItemAdded, OutputTextDelta, ArgumentsDelta, Delta,
       OutputItemDone, Terminal, Fails, BodyEnds, ConverterReceives, ChannelEnds, ConverterWrites

LEMMA BackendTypes ==
    ASSUME EventsTypeOK
    PROVE  /\ backend.announced \subseteq Positions /\ backend.current \in {0} \cup Positions
           /\ backend.terminals \in Nat /\ output \in Outputs
BY TerminalsAssumption DEF EventsTypeOK, Backends

\* What comes on its own.
LEMMA Alone ==
    \A cargo : Len(<<cargo>>) = 1 /\ <<cargo>>[1] = cargo /\ <<cargo>> # <<>>
OBVIOUS

\* What the converter takes from a channel is what an upstream without habits sends.
LEMMA CodexReceives ==
    ASSUME ConverterInv, EventsTypeOK, [CodexNext]_<<vars, codexVars>>,
           place # "failed" => EventsOrderly
    PROVE  ReceivesConforming
<1> SUFFICES ASSUME NEW c \in Chunks, Receive(c)
             PROVE  Conforms(c)
  BY DEF ReceivesConforming
<1>1. place = "receive" /\ chunk' = c /\ chunk = NoChunk
  BY DEF Receive, ConverterInv, ChunkInPlace
<1>2. CASE ConverterReceives
  <2>1. /\ pending \in Seq(Cargo) /\ pending # <<>> /\ chunk' = Head(pending).chunk
    BY <1>2 DEF ConverterReceives, Receive, EventsTypeOK
  <2>2. 1 \in 1 .. Len(pending) /\ c = pending[1].chunk
    BY <1>1, <2>1, Shifts
  <2> QED BY <1>1, <2>2 DEF EventsOrderly, ContentFirst, CallFirst, Conforms
<1>3. CASE UNCHANGED chunk
  BY <1>1, <1>3, NoChunkType DEF Conforms
<1>4. UNCHANGED chunk \/ ConverterReceives
  BY <1>1 DEF CodexNext, vars, unseen, OutputItemAdded, OutputTextDelta, ArgumentsDelta, Delta,
     OutputItemDone, Terminal, Fails, BodyEnds, ChannelEnds, ChannelCloses, ConverterWrites,
     WriteMessageStart, WritePing, Skip, CloseTextBlock, CloseToolBlock, OpenTextBlock,
     WriteTextDelta, NoteCall, StartToolBlock, WriteToolInput, WriteMessageDelta, WriteMessageStop,
     WriteFails, Returned, ClosesAll, ClosesText
<1> QED BY <1>2, <1>3, <1>4

\* An event of an orderly upstream comes before the terminal one and is not behind.
LEMMA InOrderly ==
    ASSUME NEW i, MannersOf(i) \subseteq manners', Orderly'
    PROVE  ~(i < backend.current) /\ ~(backend.terminals > 0)
BY DEF MannersOf, Orderly

LEMMA AddedOrderly ==
    ASSUME EventsTypeOK, EventsOrderly, IndexesIncrease, Orderly',
           NEW i \in Positions, OutputItemAdded(i)
    PROVE  EventsOrderly'
<1>1. /\ UNCHANGED <<vars, output>> /\ pending' = <<CallStart(i)>>
      /\ backend' = [backend EXCEPT !.announced = @ \cup {i}, !.current = i]
      /\ pending = <<>> /\ i \notin backend.announced /\ IsCall(i)
  BY DEF OutputItemAdded, unseen, Quiet
<1>a. itemIndex'[i] = output[i].index /\ \A j \in Positions \ {i} : itemIndex'[j] = itemIndex[j]
  <2>1. itemIndex' = [itemIndex EXCEPT ![Id(i, "added")] = output[i].index]
    BY DEF OutputItemAdded
  <2>2. Id(i, "added") = i
    BY <1>1 DEF Orderly, Positions, IsCall, Carries, Id
  <2> QED BY <2>1, <2>2 DEF EventsTypeOK
<1>2. /\ backend'.announced = backend.announced \cup {i} /\ backend'.current = i
      /\ backend'.terminals = backend.terminals
  BY <1>1 DEF EventsTypeOK, Backends
<1>3. ~(i < backend.current) /\ backend.terminals = 0
  <2>1. MannersOf(i) \subseteq manners'
    BY DEF OutputItemAdded
  <2> QED BY <2>1, InOrderly, BackendTypes
<1>4. Len(pending') = 1 /\ pending'[1] = CallStart(i) /\ pending' # <<>>
  BY <1>1, Alone
<1>5. /\ CallStart(i).chunk.kind = "tool" /\ CallStart(i).chunk.call = output[i].index
      /\ CallStart(i).chunk.gives = {"id", "name"}
  BY DEF CallStart, Carry, ToolDelta
<1>6. ~upstream.finished
  BY <1>3 DEF EventsOrderly, FinishComesLast
<1>7. /\ \A call \in upstream.announced : \E j \in backend.announced : output[j].index = call
      /\ \A j \in backend.announced : /\ j <= backend.current /\ IsCall(j) /\ itemIndex[j] = output[j].index
                                      /\ output[j].index \in upstream.announced
  BY <1>1, <1>3 DEF EventsOrderly, CallsFollow, OnTheWay
<1>8. \A j \in backend.announced : j < i /\ output[j].index < output[i].index
  <2> SUFFICES ASSUME NEW j \in backend.announced
               PROVE  j < i /\ output[j].index < output[i].index
    OBVIOUS
  <2>1. j \in Positions /\ j \in Nat /\ i \in Nat /\ output \in Outputs /\ backend.current \in Nat
    BY BackendTypes, OutputItems
  <2>2. j < i
    BY <1>1, <1>3, <1>7, <2>1
  <2> QED BY <2>1, <2>2, LaterItem
<1>9. Conforms(CallStart(i).chunk)
  <2>1. \A call \in upstream.announced : call < output[i].index
    BY <1>7, <1>8
  <2>2. output[i].index \in Nat
    BY BackendTypes, OutputItems, CallsAssumption
  <2>3. output[i].index \notin upstream.announced
    BY <2>1, <2>2
  <2> QED BY <1>5, <1>6, <2>1, <2>3 DEF Conforms
<1>10. ContentFirst' /\ FinishComesLast'
  BY <1>1, <1>2, <1>4, <1>5, <1>6 DEF ContentFirst, FinishComesLast, vars
<1>11. CallFirst'
  <2>1. UNCHANGED upstream
    BY <1>1 DEF vars
  <2>2. i \in backend'.announced /\ output'[i].index = CallStart(i).chunk.call
    BY <1>1, <1>2, <1>5
  <2> QED BY <1>2, <1>4, <1>9, <2>1, <2>2 DEF CallFirst, Conforms
<1>12. CallsFollow'
  <2>1. \A call \in upstream'.announced : \E j \in backend'.announced : output'[j].index = call
    BY <1>1, <1>2, <1>7 DEF vars
  <2>2. OnTheWay(i)'
    BY <1>1, <1>4, <1>5 DEF OnTheWay
  <2>3. \A j \in backend'.announced :
            /\ j <= backend'.current /\ IsCall(j)' /\ itemIndex'[j] = output'[j].index
            /\ output'[j].index \in upstream'.announced \/ OnTheWay(j)'
    <3>1. i <= i
      BY BackendTypes, OutputItems
    <3>2. \A j \in backend.announced : j <= i
      BY <1>8, BackendTypes, OutputItems
    <3>3. \A j \in backend'.announced : itemIndex'[j] = output'[j].index
      BY <1>1, <1>2, <1>7, <1>a, BackendTypes
    <3> QED BY <1>1, <1>2, <1>7, <2>2, <3>1, <3>2, <3>3 DEF IsCall, vars
  <2>4. i \in backend'.announced /\ \A k \in 1 .. Len(pending') : pending'[k].chunk.kind # "text"
    BY <1>2, <1>4, <1>5
  <2> QED BY <1>2, <2>1, <2>2, <2>3, <2>4 DEF CallsFollow
<1> QED BY <1>10, <1>11, <1>12 DEF EventsOrderly

LEMMA TextOrderly ==
    ASSUME EventsTypeOK, EventsOrderly, Orderly',
           NEW i \in Positions, OutputTextDelta(i)
    PROVE  EventsOrderly'
<1>1. /\ UNCHANGED <<vars, output, itemIndex>> /\ pending' = <<TextChunk(i, FALSE)>>
      /\ backend' = [backend EXCEPT !.deltas[i] = @ + 1, !.current = i]
      /\ pending = <<>> /\ ~IsCall(i)
  BY DEF OutputTextDelta, Delta, unseen, Quiet
<1>2. /\ backend'.announced = backend.announced /\ backend'.current = i
      /\ backend'.terminals = backend.terminals
  BY <1>1 DEF EventsTypeOK, Backends
<1>3. ~(i < backend.current) /\ backend.terminals = 0
  <2>1. MannersOf(i) \subseteq manners'
    BY DEF OutputTextDelta
  <2> QED BY <2>1, InOrderly, BackendTypes
<1>4. Len(pending') = 1 /\ pending'[1].chunk.kind = "text" /\ pending' # <<>>
  BY <1>1, Alone DEF TextChunk, Carry, Plain
<1>5. ~upstream.finished
  BY <1>3 DEF EventsOrderly, FinishComesLast
<1>6. ContentFirst' /\ FinishComesLast'
  <2>1. UNCHANGED upstream
    BY <1>1 DEF vars
  <2> QED BY <1>4, <1>5, <2>1 DEF ContentFirst, FinishComesLast
<1>7. CallFirst'
  BY <1>4 DEF CallFirst
<1>8. CallsFollow'
  <2>1. /\ \A call \in upstream.announced : \E j \in backend.announced : output[j].index = call
        /\ \A j \in backend.announced : /\ j <= backend.current /\ IsCall(j) /\ itemIndex[j] = output[j].index
                                        /\ output[j].index \in upstream.announced
    BY <1>1, <1>3 DEF EventsOrderly, CallsFollow, OnTheWay
  <2>2. \A j \in backend.announced : j <= i
    <3>1. \A j \in backend.announced : j \in Nat
      BY BackendTypes, OutputItems
    <3>2. i \in Nat /\ backend.current \in Nat
      BY BackendTypes, OutputItems
    <3> QED BY <1>3, <2>1, <3>1, <3>2
  <2> QED BY <1>1, <1>2, <2>1, <2>2 DEF CallsFollow, IsCall, vars
<1> QED BY <1>6, <1>7, <1>8 DEF EventsOrderly

LEMMA ArgumentsOrderly ==
    ASSUME EventsTypeOK, EventsOrderly, Orderly',
           NEW i \in Positions, ArgumentsDelta(i)
    PROVE  EventsOrderly'
<1> DEFINE delta == CallArguments(i, output[i].index, FALSE)
<1>1. /\ UNCHANGED <<vars, output, itemIndex>> /\ (pending' = <<delta>> \/ pending' = <<>>)
      /\ backend' = [backend EXCEPT !.deltas[i] = @ + 1, !.current = i]
      /\ pending = <<>> /\ IsCall(i)
  BY DEF ArgumentsDelta, Delta, unseen, Quiet, IsCall
<1>2. /\ backend'.announced = backend.announced /\ backend'.current = i
      /\ backend'.terminals = backend.terminals
  BY <1>1 DEF EventsTypeOK, Backends
<1>3. ~(i < backend.current) /\ backend.terminals = 0
  <2>1. MannersOf(i) \subseteq manners'
    BY DEF ArgumentsDelta
  <2> QED BY <2>1, InOrderly, BackendTypes
<1>4. i \in backend.announced
  BY DEF ArgumentsDelta, Orderly
<1>5. delta.chunk.kind = "tool" /\ delta.chunk.call = output[i].index
  BY DEF CallArguments, Carry, ToolDelta
<1> HIDE DEF delta
<1>6. pending' = <<>> \/ (Len(pending') = 1 /\ pending'[1] = delta /\ pending' # <<>>)
  BY <1>1, Alone
<1>7. ~upstream.finished
  BY <1>3 DEF EventsOrderly, FinishComesLast
<1>8. /\ \A call \in upstream.announced : \E j \in backend.announced : output[j].index = call
      /\ \A j \in backend.announced : /\ j <= backend.current /\ IsCall(j) /\ itemIndex[j] = output[j].index
                                      /\ output[j].index \in upstream.announced
      /\ backend.current # 0 /\ IsCall(backend.current) =>
            upstream.current = output[backend.current].index
  BY <1>1, <1>3 DEF EventsOrderly, CallsFollow, OnTheWay
<1>9. backend.current = i
  BY <1>3, <1>4, <1>8, BackendTypes, OutputItems
<1>10. upstream.current = output[i].index /\ output[i].index \in upstream.announced
  <2>1. i # 0
    BY BackendTypes, OutputItems
  <2> QED BY <1>1, <1>4, <1>8, <1>9, <2>1
<1>11. ContentFirst' /\ FinishComesLast'
  BY <1>1, <1>2, <1>5, <1>6, <1>7 DEF ContentFirst, FinishComesLast, vars
<1>12. CallFirst'
  <2>1. UNCHANGED <<upstream, output>>
    BY <1>1 DEF vars
  <2>2. Conforms(delta.chunk)
    BY <1>5, <1>7, <1>10 DEF Conforms
  <2> QED BY <1>2, <1>4, <1>5, <1>6, <2>1, <2>2 DEF CallFirst, Conforms
<1>13. CallsFollow'
  BY <1>1, <1>2, <1>4, <1>5, <1>6, <1>8, <1>9, <1>10 DEF CallsFollow, IsCall, vars
<1> QED BY <1>11, <1>12, <1>13 DEF EventsOrderly

\* Nothing new is on its way.
LEMMA SameOrderly ==
    ASSUME EventsOrderly, UNCHANGED <<upstream, output, itemIndex, pending>>,
           backend'.announced = backend.announced, backend'.current = backend.current,
           backend'.terminals = backend.terminals
    PROVE  EventsOrderly'
BY DEF EventsOrderly, ContentFirst, CallFirst, Conforms, FinishComesLast, CallsFollow, OnTheWay, IsCall

\* At most a failure is on its way.
LEMMA FailureOrderly ==
    ASSUME EventsOrderly, Quiet, UNCHANGED <<upstream, output, itemIndex>>,
           pending' = <<>> \/ pending' = <<Failure>>,
           backend'.announced = backend.announced, backend'.current = backend.current,
           backend'.terminals = backend.terminals
    PROVE  EventsOrderly'
<1>1. \A k \in 1 .. Len(pending') : pending'[k].chunk.kind = "error"
  <2>1. CASE pending' = <<>>
    BY <2>1
  <2>2. CASE pending' = <<Failure>>
    BY <2>2, Alone DEF Failure, Carry, Plain
  <2> QED BY <2>1, <2>2
<1>2. pending = <<>>
  BY DEF Quiet
<1>3. ContentFirst' /\ CallFirst' /\ FinishComesLast'
  BY <1>1 DEF EventsOrderly, ContentFirst, CallFirst, FinishComesLast
<1>4. CallsFollow'
  BY <1>1, <1>2 DEF EventsOrderly, CallsFollow, OnTheWay, IsCall
<1> QED BY <1>3, <1>4 DEF EventsOrderly

LEMMA TerminalOrderly ==
    ASSUME EventsTypeOK, EventsOrderly, Orderly',
           NEW status \in Statuses, NEW full \in BOOLEAN, NEW counted \in BOOLEAN,
             Terminal(status, full, counted)
    PROVE  EventsOrderly'
<1>1. /\ UNCHANGED <<vars, output, itemIndex>> /\ pending' = Supplies(full) \o Finish(status, counted)
      /\ backend' = [backend EXCEPT !.terminals = @ + 1, !.status = status, !.full = full]
      /\ pending = <<>> /\ MannersOfTerminal(full, counted) \subseteq manners'
  BY DEF Terminal, Quiet
<1>2. /\ backend'.announced = backend.announced /\ backend'.current = backend.current
      /\ backend'.terminals = backend.terminals + 1
  BY <1>1 DEF EventsTypeOK, Backends
<1>3. output \in Outputs /\ backend.terminals \in Nat /\ backend.current \in {0} \cup Positions
  BY BackendTypes
<1>4. backend.terminals = 0
  <2>1. backend.terminals > 0 => "after" \in MannersOfTerminal(full, counted)
    BY DEF MannersOfTerminal
  <2> QED BY <1>1, <1>3, <2>1 DEF Orderly
<1>5. /\ \A i \in Positions : IsCall(i) => i \in backend.announced /\ Id(i, "listed") = i
      /\ full => \A i \in Positions : Missing(i) /\ IsCall(i) =>
            backend.current = i /\ \A j \in 1 .. i - 1 : ~Missing(j)
  <2>1. \A i \in Positions : IsCall(i) => Id(i, "listed") = i
    BY <1>1 DEF Orderly, Positions, IsCall, Carries, Id
  <2> QED BY <1>1, <2>1 DEF MannersOfTerminal, Orderly
<1>6. ~upstream.finished
  BY <1>4 DEF EventsOrderly, FinishComesLast
<1>7. PICK made \in Seq(Cargo), n \in Nat, m \in Nat :
          /\ made = Supplies(full) \o Finish(status, counted)
          /\ TerminalSo(made, n, m, full, status, counted)
  <2>1. ItemsKnown
    BY DEF EventsTypeOK, ItemsKnown
  <2> QED BY <2>1, TerminalMakes
<1>8. /\ Len(made) = m + 2 /\ m \in {n, n + 1}
      /\ m = n + 1 => made[n + 1].chunk.kind = "usage"
      /\ made[m + 1].chunk.kind = "finish" /\ made[m + 2].chunk.kind = "done"
  BY <1>7 DEF TerminalSo, Carry, Plain
<1>9. \A k \in 1 .. n : /\ full /\ made[k].item \in Positions /\ Missing(made[k].item)
                        /\ made[k] = Supply(made[k].item)
  BY <1>7, Zenon DEF TerminalSo
<1>10. \A j, k \in 1 .. n : j < k => made[j].item < made[k].item
  BY <1>7, Zenon DEF TerminalSo
<1>11. \A k \in 1 .. n : made[k].chunk.kind = IF IsCall(made[k].item) THEN "tool" ELSE "text"
  <2>1. \A i \in Positions : Supply(i).chunk.kind = IF IsCall(i) THEN "tool" ELSE "text"
    BY <1>3, SupplyKind
  <2> QED BY <1>9, <2>1
<1>12. pending' = made /\ UNCHANGED <<upstream, output>>
  BY <1>1, <1>7 DEF vars
<1>13. \A k \in 1 .. m + 2 : k \in 1 .. n \/ (m = n + 1 /\ k = n + 1) \/ k = m + 1 \/ k = m + 2
  BY <1>8
<1>14. ContentFirst'
  <2> SUFFICES ASSUME NEW k \in 1 .. m + 2, made[k].chunk.kind \in {"text", "tool", "finish"}
               PROVE  \A j \in 1 .. k - 1 : made[j].chunk.kind # "finish"
    BY <1>6, <1>8, <1>12 DEF ContentFirst
  <2>1. k <= m + 1
    BY <1>8
  <2>2. \A j \in 1 .. k - 1 : j \in 1 .. n \/ (m = n + 1 /\ j = n + 1)
    BY <1>8, <2>1
  <2> QED BY <1>8, <1>11, <2>2
<1>15. CallFirst'
  <2>1. ASSUME NEW k \in 1 .. m + 2, made[k].chunk.kind = "tool"
        PROVE  /\ k = 1 /\ backend.current \in backend.announced
               /\ made[k].chunk.call = output[backend.current].index
               /\ Conforms(made[k].chunk)
    <3>1. k \in 1 .. n
      BY <1>8, <1>13, <2>1
    <3> DEFINE i == made[k].item
    <3>2. i \in Positions /\ IsCall(i) /\ full /\ Missing(i) /\ made[k] = Supply(i)
      BY <1>9, <1>11, <2>1, <3>1
    <3>3. backend.current = i /\ i \in backend.announced /\ \A j \in 1 .. i - 1 : ~Missing(j)
      BY <1>5, <3>2
    <3>4. k = 1
      <4> SUFFICES ASSUME k # 1 PROVE FALSE
        OBVIOUS
      <4>1. 1 \in 1 .. n /\ 1 < k
        BY <3>1
      <4>2. made[1].item < i /\ made[1].item \in Positions /\ Missing(made[1].item)
        BY <1>9, <1>10, <3>1, <4>1
      <4>3. made[1].item \in 1 .. i - 1
        BY <1>3, <3>2, <4>2, OutputItems
      <4> QED BY <3>3, <4>2, <4>3
    <3>5. /\ itemIndex[i] = output[i].index /\ Id(i, "listed") = i /\ output[i].index \in upstream.announced
          /\ upstream.current = output[i].index
      <4>1. i # 0
        BY <1>3, <3>2, OutputItems
      <4> HIDE DEF i
      <4> QED BY <1>1, <1>4, <1>5, <3>2, <3>3, <4>1 DEF EventsOrderly, CallsFollow, OnTheWay
    <3> HIDE DEF i
    <3>6. Supply(i).chunk.kind = "tool" /\ Supply(i).chunk.call = output[i].index
      <4>1. output[i].index # Nobody
        BY <1>3, <3>2, OutputItems, NobodyAssumption DEF Owners
      <4> QED BY <3>2, <3>5, <4>1 DEF Supply, CallArguments, Carry, ToolDelta
    <3>7. Conforms(Supply(i).chunk)
      BY <1>6, <3>5, <3>6 DEF Conforms
    <3> QED BY <3>2, <3>3, <3>4, <3>6, <3>7
  <2> QED BY <1>2, <1>8, <1>12, <2>1 DEF CallFirst, Conforms
<1>16. FinishComesLast' /\ CallsFollow'
  BY <1>2, <1>3 DEF FinishComesLast, CallsFollow
<1> QED BY <1>14, <1>15, <1>16 DEF EventsOrderly

LEMMA ReceiveOrderly ==
    ASSUME ConverterTypeOK, EventsTypeOK, EventsOrderly, ConverterReceives, place' # "failed"
    PROVE  EventsOrderly'
<1>1. /\ pending \in Seq(Cargo) /\ pending # <<>> /\ pending' = Tail(pending)
      /\ Receive(pending[1].chunk)
  BY Shifts DEF ConverterReceives, EventsTypeOK
<1>2. /\ Len(pending) \in Nat /\ Len(pending') \in Nat /\ 1 \in 1 .. Len(pending)
      /\ \A k \in 1 .. Len(pending') : pending'[k] = pending[k + 1] /\ k + 1 \in 1 .. Len(pending)
      /\ pending[1] \in Cargo
  BY <1>1, Shifts
<1>3. PICK c : c = pending[1].chunk
  OBVIOUS
<1>4. UNCHANGED <<output, backend, itemIndex>>
  BY DEF ConverterReceives
<1>5. Sends(c)
  BY <1>1, <1>3 DEF Receive
<1>6. /\ c.kind # "finish" => upstream'.finished = upstream.finished
      /\ c.kind \notin {"tool", "text"} =>
            upstream'.announced = upstream.announced /\ upstream'.current = upstream.current
      /\ c.kind = "text" => upstream'.announced = upstream.announced
      /\ c.kind = "tool" => /\ upstream'.announced = upstream.announced \cup {c.call}
                            /\ upstream'.current = c.call
  <2>1. upstream \in Senders
    BY DEF ConverterTypeOK
  <2>2. CASE /\ c \in {Plain("role"), Plain("usage"), Plain("done"), Plain("error")}
             /\ UNCHANGED upstream
    BY <2>2 DEF Plain
  <2>3. CASE c = Plain("text") /\ upstream' = [upstream EXCEPT !.current = Text]
    BY <2>1, <2>3 DEF Plain, Senders
  <2>4. CASE c = Plain("finish") /\ upstream' = [upstream EXCEPT !.finished = TRUE]
    BY <2>1, <2>4 DEF Plain, Senders
  <2>5. CASE /\ c.kind = "tool"
             /\ upstream' = [upstream EXCEPT !.announced = @ \cup {c.call}, !.current = c.call]
    BY <2>1, <2>5 DEF Senders
  <2> QED BY <1>5, <2>2, <2>3, <2>4, <2>5 DEF Sends, ToolDelta
<1>7. \A k \in 1 .. Len(pending') : pending'[k].chunk.kind # "tool"
  <2> SUFFICES ASSUME NEW k \in 1 .. Len(pending'), pending'[k].chunk.kind = "tool"
               PROVE  FALSE
    OBVIOUS
  <2>1. k + 1 = 1
    BY <1>2 DEF EventsOrderly, CallFirst
  <2> QED BY <2>1
<1>8. ContentFirst'
  <2> SUFFICES ASSUME NEW k \in 1 .. Len(pending'),
                      pending'[k].chunk.kind \in {"text", "tool", "finish"}
               PROVE  /\ ~upstream'.finished
                      /\ \A j \in 1 .. k - 1 : pending'[j].chunk.kind # "finish"
    BY DEF ContentFirst
  <2>1. /\ ~upstream.finished
        /\ \A j \in 1 .. k : pending[j].chunk.kind # "finish"
    BY <1>2 DEF EventsOrderly, ContentFirst
  <2>2. c.kind # "finish"
    BY <1>3, <2>1
  <2>3. \A j \in 1 .. k - 1 : j + 1 \in 1 .. k /\ j \in 1 .. Len(pending')
    BY <1>2
  <2> QED BY <1>2, <1>6, <2>1, <2>2, <2>3
<1>9. CallFirst'
  BY <1>7 DEF CallFirst
<1>10. FinishComesLast'
  <2> SUFFICES ASSUME backend.terminals = 0
               PROVE  /\ ~upstream'.finished
                      /\ \A k \in 1 .. Len(pending') : pending'[k].chunk.kind # "finish"
    BY <1>4 DEF FinishComesLast
  <2>1. ~upstream.finished /\ \A k \in 1 .. Len(pending) : pending[k].chunk.kind # "finish"
    BY DEF EventsOrderly, FinishComesLast
  <2>2. c.kind # "finish"
    BY <1>2, <1>3, <2>1
  <2> QED BY <1>2, <1>6, <2>1, <2>2
<1>11. CallsFollow'
  <2> SUFFICES ASSUME backend.terminals = 0
               PROVE  CallsFollow'
    BY <1>4 DEF CallsFollow
  <2>1. c.kind = "tool" => /\ backend.current \in backend.announced
                           /\ c.call = output[backend.current].index
    BY <1>2, <1>3 DEF EventsOrderly, CallFirst
  <2>2. \A i : OnTheWay(i) => c.kind = "tool" /\ c.call = output[i].index
    BY <1>3 DEF OnTheWay
  <2>3. \A call \in upstream'.announced : \E i \in backend.announced : output[i].index = call
    BY <1>6, <2>1 DEF EventsOrderly, CallsFollow
  <2>4. \A i \in backend.announced : /\ i <= backend.current /\ IsCall(i) /\ itemIndex[i] = output[i].index
                                     /\ output[i].index \in upstream'.announced
    BY <1>6, <2>2 DEF EventsOrderly, CallsFollow
  <2>5. backend.current # 0 /\ IsCall(backend.current) =>
            /\ backend.current \in backend.announced
            /\ upstream'.current = output[backend.current].index
            /\ \A k \in 1 .. Len(pending) : pending[k].chunk.kind # "text"
    <3>1. backend.current # 0 /\ IsCall(backend.current) =>
            /\ backend.current \in backend.announced
            /\ upstream.current = output[backend.current].index \/ OnTheWay(backend.current)
            /\ \A k \in 1 .. Len(pending) : pending[k].chunk.kind # "text"
      BY DEF EventsOrderly, CallsFollow
    <3> QED BY <1>2, <1>3, <1>6, <2>1, <2>2, <3>1
  <2> QED BY <1>2, <1>4, <2>3, <2>4, <2>5 DEF CallsFollow, IsCall
<1> QED BY <1>8, <1>9, <1>10, <1>11 DEF EventsOrderly

LEMMA EventsOrderlyStep ==
    ASSUME ConverterTypeOK, EventsTypeOK, EventsOrderly, IndexesIncrease, Orderly', place' # "failed",
           [CodexNext]_<<vars, codexVars>>
    PROVE  EventsOrderly'
<1>1. CASE UNCHANGED <<upstream, codexVars>>
  BY <1>1, SameOrderly DEF codexVars
<1>2. ASSUME NEW i \in Positions,
             OutputItemAdded(i) \/ OutputTextDelta(i) \/ ArgumentsDelta(i)
      PROVE  EventsOrderly'
  BY <1>2, AddedOrderly, TextOrderly, ArgumentsOrderly
<1>3. ASSUME NEW i \in Positions, OutputItemDone(i)
      PROVE  EventsOrderly'
  <2>1. backend' = [backend EXCEPT !.done = @ \cup {i}]
    BY <1>3 DEF OutputItemDone
  <2>2. /\ backend'.announced = backend.announced /\ backend'.current = backend.current
        /\ backend'.terminals = backend.terminals
    BY <2>1 DEF EventsTypeOK, Backends
  <2> QED BY <1>3, <2>2, SameOrderly DEF OutputItemDone, unseen, vars
<1>4. CASE \E status \in Statuses, full, counted \in BOOLEAN : Terminal(status, full, counted)
  BY <1>4, TerminalOrderly
<1>5. CASE Fails
  BY <1>5, FailureOrderly DEF Fails, vars
<1>6. CASE BodyEnds
  <2>1. backend' = [backend EXCEPT !.open = FALSE]
    BY <1>6 DEF BodyEnds
  <2>2. /\ backend'.announced = backend.announced /\ backend'.current = backend.current
        /\ backend'.terminals = backend.terminals
    BY <2>1 DEF EventsTypeOK, Backends
  <2> QED BY <1>6, <2>2, FailureOrderly DEF BodyEnds, unseen, vars
<1>7. CASE ConverterReceives
  BY <1>7, ReceiveOrderly
<1>8. CASE ChannelEnds \/ ConverterWrites \/ UNCHANGED <<vars, codexVars>>
  <2>1. UNCHANGED <<upstream, codexVars>>
    BY <1>8 DEF ChannelEnds, ChannelCloses, ConverterWrites, WriteMessageStart, WritePing, Skip,
       CloseTextBlock, CloseToolBlock, OpenTextBlock, WriteTextDelta, NoteCall, StartToolBlock,
       WriteToolInput, WriteMessageDelta, WriteMessageStop, WriteFails, Returned, historyVars, vars
  <2> QED BY <1>1, <2>1
<1> QED BY <1>2, <1>3, <1>4, <1>5, <1>6, <1>7, <1>8 DEF CodexNext

LEMMA OrderlyInvInit == CodexInit => OrderlyInv
<1> SUFFICES ASSUME CodexInit PROVE OrderlyInv
  OBVIOUS
<1>1. ConformingInv
  BY ConformingInvInit DEF CodexInit
<1>2. /\ pending = <<>> /\ backend.announced = {} /\ backend.current = 0
      /\ upstream.announced = {} /\ upstream.finished = FALSE
  BY DEF CodexInit, ConverterInit
<1>3. EventsOrderly
  BY <1>2, EmptySeq DEF EventsOrderly, ContentFirst, CallFirst, FinishComesLast, CallsFollow
<1> QED BY <1>1, <1>3 DEF OrderlyInv

LEMMA OrderlyInvStep ==
    ASSUME CodexInv, OrderlyInv, IndexesIncrease, [CodexNext]_<<vars, codexVars>>
    PROVE  OrderlyInv'
<1> SUFFICES ASSUME Orderly'
             PROVE  ConformingInv' /\ (place' # "failed" => EventsOrderly')
  BY DEF OrderlyInv
<1>1. Orderly
  BY MannersGrow, OutputStays DEF Orderly, Positions, IsCall, Carries
<1>2. ConformingInv /\ (place # "failed" => EventsOrderly)
  BY <1>1 DEF OrderlyInv
<1>3. [ConverterNext]_vars
  BY CodexConverts, CodexTypes DEF CodexInv, ConverterInv
<1>4. ConformingInv'
  BY <1>2, <1>3, CodexReceives, ConformingStep DEF CodexInv
<1>5. place' # "failed" => place # "failed"
  BY FailedStays
<1> QED BY <1>2, <1>4, <1>5, EventsOrderlyStep DEF CodexInv, ConverterInv

\* An upstream that goes through its items in order, announces each call before
\* its arguments, lists it by the id it announced and stops after one terminal
\* event gets every event of every response into its block, what comes only with
\* that event included (stream.go:196-215), if each item has a larger output_index
\* than the one before.
THEOREM OrderlyUpstreamInPlace ==
    ASSUME IndexesIncrease
    PROVE  CodexSpec => []OrderlyInPlace
<1>1. CodexInv /\ OrderlyInv /\ [CodexNext]_<<vars, codexVars>> => (CodexInv /\ OrderlyInv)'
  BY CodexInvStep, OrderlyInvStep
<1>2. OrderlyInv => OrderlyInPlace
  BY DEF OrderlyInv, Orderly, ConformingInv, OrderlyInPlace
<1> QED BY <1>1, <1>2, CodexInvInit, OrderlyInvInit, PTL DEF CodexSpec

-----------------------------------------------------------------------------
(* Streaming or not *)

Complete == manners \subseteq {"interleaved", "late"}

\* The calls announced.
AnnouncedKnown ==
    /\ \A i \in backend.announced : IsCall(i)
    /\ hasToolUse <=> backend.announced # {}

AnnouncedIndexes == {output[i].index : i \in backend.announced}

\* Each delta has been forwarded or is on its way, but for arguments without an id.
PartAhead(i) ==
    /\ pending # <<>> /\ pending[1].item = i
    /\ ~pending[1].whole /\ pending[1].chunk.gives = {}

Kept(i) == ~IsCall(i) \/ Carries(i, "delta")

PartsCounted ==
    /\ streamed = {i \in Positions : Carries(i, "delta") /\ backend.deltas[i] > 0}
    /\ \A k \in 2 .. Len(pending) : pending[k].item # 0 => pending[k].whole
    /\ \A i \in Positions : Kept(i) =>
          backend.deltas[i] = forwarded[i].parts + (IF PartAhead(i) THEN 1 ELSE 0)

\* Each item the terminal event supplies has been forwarded or is on its way, once.
WholeAhead(i) == \E k \in 1 .. Len(pending) : pending[k].item = i /\ pending[k].whole

Due(i) == backend.terminals > 0 /\ backend.full /\ Missing(i)

WholesCounted ==
    /\ \A j, k \in 1 .. Len(pending) :
          pending[j].whole /\ pending[k].whole /\ pending[j].item = pending[k].item => j = k
    /\ \A k \in 1 .. Len(pending) : pending[k].whole => pending[k].chunk.gives = {}
    /\ \A i \in Positions :
          forwarded[i].wholes + (IF WholeAhead(i) THEN 1 ELSE 0) = IF Due(i) THEN 1 ELSE 0

\* The channel ends after a terminal event or a failure, and empty.
EndKnown ==
    /\ AtEnd => pending = <<>> /\ ~backend.open
    /\ ~backend.open /\ place # "failed" =>
          backend.terminals > 0 \/ (pending # <<>> /\ pending[1].chunk.kind = "error")
    /\ "terminal" \in guard => backend.terminals > 0

\* What a terminal event of a complete stream says of the items.
AnswerKnown ==
    backend.terminals > 0 =>
        /\ \A i \in Positions : IsCall(i) => i \in backend.announced
        /\ backend.done \in {{}, Positions}
        /\ backend.full \/ (backend.done # {} /\ \A i \in Positions : Told(i))

\* The blocks that begin are those of the calls announced, and each of these has begun
\* or is about to.
Beginning(i) ==
    \/ /\ pending # <<>> /\ pending[1].chunk.kind = "tool"
       /\ pending[1].chunk.call = output[i].index /\ pending[1].chunk.gives = {"id", "name"}
    \/ /\ InHand /\ chunk.kind = "tool" /\ chunk.call = output[i].index
       /\ place = "call" \/ (place # "args" /\ chunk.gives = {"id", "name"})

Names(c) == c.kind = "tool" /\ c.gives # {}

CallsBegun ==
    /\ \A k \in 1 .. Len(pending) :
          Names(pending[k].chunk) => pending[k].chunk.call \in AnnouncedIndexes
    /\ InHand /\ (Names(chunk) \/ place = "call") => chunk.call \in AnnouncedIndexes
    /\ \A call \in Calls :
          toolCalls[call].started \/ toolCalls[call].has # {} => call \in AnnouncedIndexes
    /\ \A i \in backend.announced : toolCalls[output[i].index].started \/ Beginning(i)

\* The finish reason is on its way, or known and the first.
FinishAhead == \E k \in 1 .. Len(pending) : pending[k].chunk.kind = "finish"

ReasonKnown ==
    /\ backend.terminals = 0 => ~FinishAhead
    /\ backend.terminals = 0 \/ FinishAhead => ~finished /\ ~(InHand /\ chunk.kind = "finish")
    /\ backend.terminals > 0 => FinishAhead \/ reason = FinishReason(backend.status, hasToolUse)
    /\ \A k \in 1 .. Len(pending) : pending[k].chunk.kind = "finish" =>
          /\ pending[k].reason = FinishReason(backend.status, hasToolUse)
          /\ \A j \in 1 .. Len(pending) : pending[j].chunk.kind = "finish" => j = k

AnswerInv ==
    /\ AnnouncedKnown /\ PartsCounted /\ EndKnown
    /\ Complete => WholesCounted /\ AnswerKnown /\ (place # "failed" => CallsBegun /\ ReasonKnown)

\* What every step of an upstream or the parser does to the items and the converter.
LEMMA ReceivesHead ==
    ASSUME EventsTypeOK, ConverterReceives
    PROVE  /\ pending \in Seq(Cargo) /\ pending # <<>> /\ Len(pending) \in Nat
           /\ 1 \in 1 .. Len(pending) /\ pending[1] \in Cargo
           /\ Receive(pending[1].chunk) /\ pending' = Tail(pending) /\ Len(pending') = Len(pending) - 1
           /\ \A k \in 1 .. Len(pending') : pending'[k] = pending[k + 1] /\ k + 1 \in 1 .. Len(pending)
           /\ forwarded' = Forward(pending[1])
           /\ reason' = IF pending[1].chunk.kind = "finish" /\ ~finished
                          THEN pending[1].reason ELSE reason
           /\ UNCHANGED <<output, backend, manners, streamed, itemIndex, hasToolUse, guard>>
<1>1. pending \in Seq(Cargo) /\ pending # <<>>
  BY DEF ConverterReceives, EventsTypeOK
<1>2. /\ Len(pending) \in Nat \ {0} /\ Head(pending) = pending[1] /\ pending[1] \in Cargo
      /\ Tail(pending) \in Seq(Cargo) /\ Len(Tail(pending)) = Len(pending) - 1
      /\ \A k \in 1 .. Len(Tail(pending)) : Tail(pending)[k] = pending[k + 1] /\ k + 1 \in 1 .. Len(pending)
  BY <1>1, Shifts
<1>3. 1 \in 1 .. Len(pending)
  BY <1>2
<1> QED BY <1>1, <1>2, <1>3 DEF ConverterReceives

\* The converter's own steps leave the rest alone.
LEMMA ConverterAlone ==
    ASSUME ChannelEnds \/ ConverterWrites
    PROVE  UNCHANGED codexVars
BY DEF ChannelEnds, ConverterWrites

\* How the record of the backend changes.
LEMMA BackendSteps ==
    ASSUME EventsTypeOK
    PROVE  /\ \A i \in Positions : OutputItemAdded(i) =>
                 /\ backend'.announced = backend.announced \cup {i}
                 /\ backend'.deltas = backend.deltas /\ backend'.done = backend.done
                 /\ backend'.terminals = backend.terminals /\ backend'.status = backend.status
                 /\ backend'.full = backend.full /\ backend'.open = backend.open
           /\ \A i \in Positions : Delta(i) =>
                 /\ backend'.announced = backend.announced
                 /\ backend'.deltas = [backend.deltas EXCEPT ![i] = @ + 1]
                 /\ backend'.done = backend.done
                 /\ backend'.terminals = backend.terminals /\ backend'.status = backend.status
                 /\ backend'.full = backend.full /\ backend'.open = backend.open
           /\ \A i \in Positions : OutputItemDone(i) =>
                 /\ backend'.announced = backend.announced
                 /\ backend'.deltas = backend.deltas
                 /\ backend'.terminals = backend.terminals /\ backend'.status = backend.status
                 /\ backend'.full = backend.full /\ backend'.open = backend.open
           /\ BodyEnds =>
                 /\ backend'.announced = backend.announced
                 /\ backend'.deltas = backend.deltas /\ backend'.done = backend.done
                 /\ backend'.terminals = backend.terminals /\ backend'.status = backend.status
                 /\ backend'.full = backend.full /\ backend'.open = FALSE
<1> USE DEF EventsTypeOK, Backends
<1>1. ASSUME NEW i \in Positions, OutputItemAdded(i)
      PROVE  /\ backend'.announced = backend.announced \cup {i}
             /\ backend'.deltas = backend.deltas /\ backend'.done = backend.done
             /\ backend'.terminals = backend.terminals /\ backend'.status = backend.status
             /\ backend'.full = backend.full /\ backend'.open = backend.open
  BY <1>1 DEF OutputItemAdded
<1>2. ASSUME NEW i \in Positions, Delta(i)
      PROVE  /\ backend'.announced = backend.announced
             /\ backend'.deltas = [backend.deltas EXCEPT ![i] = @ + 1]
             /\ backend'.done = backend.done
             /\ backend'.terminals = backend.terminals /\ backend'.status = backend.status
             /\ backend'.full = backend.full /\ backend'.open = backend.open
  BY <1>2 DEF Delta
<1>3. ASSUME NEW i \in Positions, OutputItemDone(i)
      PROVE  /\ backend'.announced = backend.announced
             /\ backend'.deltas = backend.deltas
             /\ backend'.terminals = backend.terminals /\ backend'.status = backend.status
             /\ backend'.full = backend.full /\ backend'.open = backend.open
  BY <1>3 DEF OutputItemDone
<1>4. ASSUME BodyEnds
      PROVE  /\ backend'.announced = backend.announced
             /\ backend'.deltas = backend.deltas /\ backend'.done = backend.done
             /\ backend'.terminals = backend.terminals /\ backend'.status = backend.status
             /\ backend'.full = backend.full /\ backend'.open = FALSE
  BY <1>4 DEF BodyEnds
<1> HIDE DEF EventsTypeOK, Backends
<1> QED BY <1>1, <1>2, <1>3, <1>4, Zenon

LEMMA TerminalStep ==
    ASSUME EventsTypeOK, NEW status \in Statuses, NEW full \in BOOLEAN, NEW counted \in BOOLEAN,
             Terminal(status, full, counted)
    PROVE  /\ backend'.announced = backend.announced /\ backend'.deltas = backend.deltas
           /\ backend'.done = backend.done /\ backend'.terminals = backend.terminals + 1
           /\ backend'.status = status /\ backend'.full = full /\ backend'.open = backend.open
BY DEF Terminal, EventsTypeOK, Backends

\* A complete stream has one terminal event, and no other event after it.
LEMMA InComplete ==
    ASSUME EventsTypeOK, Complete'
    PROVE  /\ Complete \/ ~(manners \subseteq manners')
           /\ \A i : MannersOf(i) \subseteq manners' => backend.terminals = 0
           /\ \A full, counted \in BOOLEAN :
                 MannersOfTerminal(full, counted) \subseteq manners' => backend.terminals = 0
<1>1. backend.terminals \in Nat /\ "after" \notin manners'
  BY BackendTypes DEF Complete
<1>2. \A i : backend.terminals > 0 => "after" \in MannersOf(i)
  BY DEF MannersOf
<1>3. ASSUME NEW full \in BOOLEAN, NEW counted \in BOOLEAN, backend.terminals > 0
      PROVE  "after" \in MannersOfTerminal(full, counted)
  BY <1>3 DEF MannersOfTerminal
<1>4. Complete \/ ~(manners \subseteq manners')
  BY DEF Complete
<1>5. backend.terminals = 0 <=> ~(backend.terminals > 0)
  BY <1>1
<1>6. \A i : MannersOf(i) \subseteq manners' => backend.terminals = 0
  BY <1>1, <1>2, <1>5
<1>7. \A full, counted \in BOOLEAN :
          MannersOfTerminal(full, counted) \subseteq manners' => backend.terminals = 0
  BY <1>1, <1>3, <1>5, Zenon
<1> QED BY <1>4, <1>6, <1>7, Zenon

LEMMA AnnouncedStep ==
    ASSUME EventsTypeOK, AnnouncedKnown, [CodexNext]_<<vars, codexVars>>
    PROVE  AnnouncedKnown'
<1> USE DEF AnnouncedKnown, IsCall
<1>1. ASSUME NEW i \in Positions, OutputItemAdded(i)
      PROVE  AnnouncedKnown'
  BY <1>1, BackendSteps DEF OutputItemAdded, unseen
<1>2. ASSUME NEW i \in Positions, OutputTextDelta(i) \/ ArgumentsDelta(i)
      PROVE  AnnouncedKnown'
  <2>1. Delta(i)
    BY <1>2 DEF OutputTextDelta, ArgumentsDelta
  <2> QED BY <2>1, BackendSteps DEF Delta, unseen
<1>3. ASSUME NEW i \in Positions, OutputItemDone(i)
      PROVE  AnnouncedKnown'
  BY <1>3, BackendSteps DEF OutputItemDone, unseen
<1>4. ASSUME NEW status \in Statuses, NEW full \in BOOLEAN, NEW counted \in BOOLEAN,
             Terminal(status, full, counted)
      PROVE  AnnouncedKnown'
  BY <1>4, TerminalStep DEF Terminal
<1>5. CASE Fails
  BY <1>5 DEF Fails
<1>6. CASE BodyEnds
  BY <1>6, BackendSteps DEF BodyEnds, unseen
<1>7. CASE ConverterReceives
  BY <1>7 DEF ConverterReceives
<1>8. CASE ChannelEnds \/ ConverterWrites \/ UNCHANGED <<vars, codexVars>>
  BY <1>8, ConverterAlone DEF codexVars
<1> QED BY <1>1, <1>2, <1>3, <1>4, <1>5, <1>6, <1>7, <1>8 DEF CodexNext

LEMMA PartsStep ==
    ASSUME EventsTypeOK, PartsCounted, [CodexNext]_<<vars, codexVars>>
    PROVE  PartsCounted'
<1>1. ASSUME UNCHANGED <<output, streamed, forwarded>>, backend'.deltas = backend.deltas,
             pending' = pending \/ (pending = <<>> /\ \A i \in Positions : ~PartAhead(i)'),
             \A k \in 2 .. Len(pending') : pending'[k].item # 0 => pending'[k].whole
      PROVE  PartsCounted'
  BY <1>1 DEF PartsCounted, PartAhead, Positions, Kept, IsCall, Carries
<1>2. ASSUME NEW i \in Positions, OutputItemAdded(i)
      PROVE  PartsCounted'
  <2>1. /\ pending = <<>> /\ pending' = <<CallStart(i)>> /\ UNCHANGED <<output, streamed, forwarded>>
        /\ CallStart(i).chunk.gives # {}
    BY <1>2 DEF OutputItemAdded, Quiet, unseen, CallStart, Carry, ToolDelta
  <2>2. Len(pending') = 1 /\ \A j \in Positions : ~PartAhead(j)'
    BY <2>1, Alone DEF PartAhead
  <2> QED BY <1>1, <1>2, <2>1, <2>2, BackendSteps
<1>3. ASSUME NEW i \in Positions, OutputTextDelta(i) \/ ArgumentsDelta(i)
      PROVE  PartsCounted'
  <2>1. Delta(i) /\ (OutputTextDelta(i) => ~IsCall(i)) /\ (ArgumentsDelta(i) => IsCall(i))
    BY <1>3 DEF OutputTextDelta, ArgumentsDelta, IsCall
  <2>2. IF Kept(i) THEN \E cargo : /\ pending' = <<cargo>> /\ cargo.item = i /\ ~cargo.whole
                                   /\ cargo.chunk.gives = {}
        ELSE pending' = <<>>
    BY <1>3, <2>1 DEF OutputTextDelta, ArgumentsDelta, Kept, TextChunk, CallArguments, Carry, Plain, ToolDelta
  <2>3. /\ \A k \in 2 .. Len(pending') : pending'[k].item # 0 => pending'[k].whole
        /\ \A j : PartAhead(j)' <=> j = i /\ Kept(i)
    <3>1. CASE Kept(i)
      <4>1. PICK cargo : /\ pending' = <<cargo>> /\ cargo.item = i /\ ~cargo.whole
                         /\ cargo.chunk.gives = {}
        BY <2>2, <3>1
      <4>2. Len(pending') = 1 /\ pending'[1] = cargo /\ pending' # <<>>
        BY <4>1, Alone
      <4> QED BY <3>1, <4>1, <4>2 DEF PartAhead
    <3>2. CASE ~Kept(i)
      BY <2>2, <3>2, EmptySeq DEF PartAhead
    <3> QED BY <3>1, <3>2
  <2>4. /\ pending = <<>> /\ UNCHANGED <<output, forwarded>>
        /\ streamed' = IF Carries(i, "delta") THEN streamed \cup {i} ELSE streamed
        /\ backend'.deltas = [backend.deltas EXCEPT ![i] = @ + 1]
    BY <2>1, BackendSteps DEF Delta, Quiet, unseen
  <2>6. backend.deltas \in [Positions -> Nat]
    BY DEF EventsTypeOK, Backends
  <2>7. /\ streamed = {j \in Positions : Carries(j, "delta") /\ backend.deltas[j] > 0}
        /\ \A j \in Positions : Kept(j) => backend.deltas[j] = forwarded[j].parts
        /\ \A j \in Positions : forwarded[j].parts \in Nat
    <3>1. \A j \in Positions : forwarded[j].parts \in Nat
      BY DEF EventsTypeOK
    <3> QED BY <2>4, <3>1 DEF PartsCounted, PartAhead
  <2>8. \A j \in Positions :
            /\ backend'.deltas[j] > 0 <=> j = i \/ backend.deltas[j] > 0
            /\ Kept(j) => backend'.deltas[j] = forwarded[j].parts + (IF j = i THEN 1 ELSE 0)
    BY <2>4, <2>6, <2>7
  <2>9. streamed' = {j \in Positions : Carries(j, "delta") /\ backend'.deltas[j] > 0}
    BY <2>4, <2>7, <2>8
  <2>10. \A j \in Positions : (Kept(j)' <=> Kept(j)) /\ (Carries(j, "delta")' <=> Carries(j, "delta"))
    BY <2>4 DEF Kept, IsCall, Carries
  <2>11. Positions' = Positions
    BY <2>4 DEF Positions
  <2>12. \A j \in Positions : Kept(j) =>
            backend'.deltas[j] = forwarded'[j].parts + (IF PartAhead(j)' THEN 1 ELSE 0)
    BY <2>3, <2>4, <2>8
  <2> QED BY <2>3, <2>9, <2>10, <2>11, <2>12 DEF PartsCounted
<1>4. ASSUME NEW i \in Positions, OutputItemDone(i)
      PROVE  PartsCounted'
  BY <1>1, <1>4, BackendSteps DEF OutputItemDone, unseen, PartsCounted
<1>5. ASSUME NEW status \in Statuses, NEW full \in BOOLEAN, NEW counted \in BOOLEAN,
             Terminal(status, full, counted)
      PROVE  PartsCounted'
  <2>1. /\ pending = <<>> /\ pending' = Supplies(full) \o Finish(status, counted)
        /\ UNCHANGED <<output, streamed, forwarded>>
    BY <1>5 DEF Terminal, Quiet
  <2>2. output \in Outputs /\ ItemsKnown
    BY DEF EventsTypeOK, ItemsKnown
  <2>3. PICK made \in Seq(Cargo), n \in Nat, m \in Nat :
            /\ made = Supplies(full) \o Finish(status, counted)
            /\ TerminalSo(made, n, m, full, status, counted)
    BY <2>2, TerminalMakes
  <2>4. /\ Len(made) = m + 2 /\ m \in {n, n + 1}
        /\ m = n + 1 => made[n + 1].item = 0
        /\ made[m + 1].item = 0 /\ made[m + 2].item = 0
    <3>1. /\ m = IF counted THEN n + 1 ELSE n
          /\ Len(made) = m + 2
          /\ counted => made[n + 1] = Carry(Plain("usage"), 0, FALSE)
          /\ made[m + 1] = [Carry(Plain("finish"), 0, FALSE) EXCEPT !.reason = FinishReason(status, hasToolUse)]
          /\ made[m + 2] = Carry(Plain("done"), 0, FALSE)
      BY <2>3, Zenon DEF TerminalSo
    <3>2. CASE counted
      BY <3>1, <3>2 DEF Carry
    <3>3. CASE ~counted
      BY <3>1, <3>3 DEF Carry
    <3> QED BY <3>2, <3>3
  <2>5. \A k \in 1 .. n : made[k].whole
    <3>1. \A k \in 1 .. n : made[k].item \in Positions /\ made[k] = Supply(made[k].item)
      BY <2>3, Zenon DEF TerminalSo
    <3>2. \A i \in Positions : Supply(i).whole
      BY <2>2, SupplyItem
    <3> QED BY <3>1, <3>2
  <2>6. \A k \in 1 .. m + 2 : made[k].whole \/ made[k].item = 0
    <3>1. \A k \in 1 .. m + 2 : k \in 1 .. n \/ (m = n + 1 /\ k = n + 1) \/ k = m + 1 \/ k = m + 2
      BY <2>4
    <3> QED BY <2>4, <2>5, <3>1
  <2>7. \A i \in Positions : ~PartAhead(i)'
    <3>1. made[1].whole \/ made[1].item = 0
      BY <2>6
    <3>2. \A i \in Positions : i # 0
      BY <2>2, OutputItems
    <3> QED BY <2>1, <2>3, <3>1, <3>2 DEF PartAhead
  <2>8. \A k \in 2 .. Len(pending') : pending'[k].item # 0 => pending'[k].whole
    <3>1. pending' = made
      BY <2>1, <2>3
    <3>2. \A k \in 2 .. m + 2 : k \in 1 .. m + 2
      OBVIOUS
    <3> QED BY <2>4, <2>6, <3>1, <3>2
  <2> QED BY <1>1, <1>5, <2>1, <2>7, <2>8, TerminalStep
<1>6. ASSUME Quiet, pending' = <<>> \/ pending' = <<Failure>>
      PROVE  /\ pending = <<>> /\ \A i \in Positions : ~PartAhead(i)'
             /\ \A k \in 2 .. Len(pending') : pending'[k].item # 0 => pending'[k].whole
  <2>1. Failure.item = 0 /\ \A i \in Positions : i # 0
    BY BackendTypes, OutputItems DEF Failure, Carry
  <2>2. CASE pending' = <<>>
    BY <1>6, <2>2 DEF Quiet, PartAhead
  <2>3. CASE pending' = <<Failure>>
    <3>1. Len(pending') = 1 /\ pending'[1] = Failure
      BY <2>3, Alone
    <3> QED BY <1>6, <2>1, <3>1 DEF Quiet, PartAhead
  <2> QED BY <1>6, <2>2, <2>3
<1>7. CASE Fails
  BY <1>1, <1>6, <1>7 DEF Fails
<1>8. CASE BodyEnds
  <2>1. Quiet /\ (pending' = <<>> \/ pending' = <<Failure>>) /\ UNCHANGED <<output, streamed, forwarded>>
    BY <1>8 DEF BodyEnds, unseen
  <2> QED BY <1>1, <1>6, <1>8, <2>1, BackendSteps
<1>9. CASE ConverterReceives
  <2>1. PICK cargo \in Cargo : cargo = pending[1]
    BY <1>9, ReceivesHead
  <2>2. /\ forwarded' = Forward(cargo) /\ UNCHANGED <<output, backend, streamed>>
        /\ pending # <<>> /\ cargo.item \in {0} \cup Positions
        /\ forwarded \in [Positions -> [parts : Nat, wholes : Nat]]
    BY <1>9, <2>1, ReceivesHead DEF Cargo, EventsTypeOK
  <2>3. \A k \in 1 .. Len(pending') :
            /\ k + 1 \in 2 .. Len(pending) /\ pending'[k] = pending[k + 1]
            /\ pending'[k].item # 0 => pending'[k].whole
    <3>1. /\ Len(pending) \in Nat
          /\ \A k \in 1 .. Len(pending') : pending'[k] = pending[k + 1] /\ k + 1 \in 1 .. Len(pending)
      BY <1>9, ReceivesHead
    <3>2. \A k \in 1 .. Len(pending') : k + 1 \in 2 .. Len(pending)
      BY <3>1
    <3> QED BY <3>1, <3>2 DEF PartsCounted
  <2>4. \A i \in Positions : ~PartAhead(i)'
    <3> SUFFICES ASSUME NEW i \in Positions, PartAhead(i)'
                 PROVE  FALSE
      OBVIOUS
    <3>1. pending' \in Seq(Cargo) /\ pending' # <<>> /\ i # 0
      <4>1. pending' \in Seq(Cargo)
        BY <1>9, ReceivesHead, Shifts
      <4>2. i # 0
        BY BackendTypes, OutputItems
      <4> QED BY <4>1, <4>2 DEF PartAhead
    <3>2. 1 \in 1 .. Len(pending')
      BY <3>1
    <3> QED BY <2>3, <3>1, <3>2 DEF PartAhead
  <2>5. \A i \in Positions : Kept(i) => forwarded'[i].parts = backend.deltas[i]
    <3> SUFFICES ASSUME NEW i \in Positions, Kept(i)
                 PROVE  forwarded'[i].parts = backend.deltas[i]
      OBVIOUS
    <3>1. i # 0 /\ forwarded[i].parts \in Nat
      BY <2>2, BackendTypes, OutputItems
    <3>2. backend.deltas[i] = forwarded[i].parts + (IF PartAhead(i) THEN 1 ELSE 0)
      BY DEF PartsCounted
    <3>3. PartAhead(i) <=> cargo.item = i /\ ~cargo.whole /\ cargo.chunk.gives = {}
      BY <2>1, <2>2 DEF PartAhead
    <3> QED BY <2>2, <3>1, <3>2, <3>3 DEF Forward
  <2>6. Positions' = Positions
    BY <2>2 DEF Positions
  <2>7. /\ streamed' = {i \in Positions' : Carries(i, "delta")' /\ backend'.deltas[i] > 0}
        /\ \A i \in Positions : Kept(i)' <=> Kept(i)
    BY <2>2, <2>6 DEF PartsCounted, Kept, IsCall, Carries
  <2>8. \A k \in 2 .. Len(pending') : pending'[k].item # 0 => pending'[k].whole
    <3>1. \A k \in 2 .. Len(pending') : k \in 1 .. Len(pending')
      BY <1>9, ReceivesHead
    <3> QED BY <2>3, <3>1
  <2>9. \A i \in Positions : backend.deltas[i] \in Nat
    BY DEF EventsTypeOK, Backends
  <2> QED BY <2>2, <2>4, <2>5, <2>6, <2>7, <2>8, <2>9 DEF PartsCounted
<1>10. CASE ChannelEnds \/ ConverterWrites \/ UNCHANGED <<vars, codexVars>>
  BY <1>1, <1>10, ConverterAlone DEF codexVars, PartsCounted
<1> QED BY <1>2, <1>3, <1>4, <1>5, <1>7, <1>8, <1>9, <1>10 DEF CodexNext

\* What a terminal event puts on its way: the supplied items, then the usage, the
\* finish reason and the end.
TerminalSent(seq, n, m, full, status) ==
    /\ m \in {n, n + 1} /\ Len(seq) = m + 2 /\ seq # <<>>
    /\ \A k \in 1 .. n :
          /\ full /\ seq[k].item \in Positions /\ Missing(seq[k].item)
          /\ seq[k].whole
          /\ seq[k].chunk.kind \in {"tool", "text"}
          /\ seq[k].chunk.gives = {}
    /\ \A j, k \in 1 .. n : j < k => seq[j].item < seq[k].item
    /\ full => \A i \in Positions : Missing(i) => \E k \in 1 .. n : seq[k].item = i
    /\ \A k \in n + 1 .. m + 2 :
          /\ ~seq[k].whole /\ seq[k].chunk.gives = {}
          /\ seq[k].chunk.kind = "finish" <=> k = m + 1
    /\ seq[m + 1].reason = FinishReason(status, hasToolUse)

LEMMA TerminalSends ==
    ASSUME EventsTypeOK, NEW status \in Statuses, NEW full \in BOOLEAN, NEW counted \in BOOLEAN,
           Terminal(status, full, counted)
    PROVE  \E n, m \in Nat : TerminalSent(pending', n, m, full, status)
<1>1. ItemsKnown
  BY DEF EventsTypeOK, ItemsKnown
<1>2. PICK made \in Seq(Cargo), n \in Nat, m \in Nat :
          /\ made = Supplies(full) \o Finish(status, counted)
          /\ TerminalSo(made, n, m, full, status, counted)
  BY <1>1, TerminalMakes
<1>3. pending' = made
  BY <1>2 DEF Terminal
<1>4. Len(made) = m + 2 /\ made # <<>> /\ m \in {n, n + 1}
  <2>1. Len(made) = m + 2 /\ m \in {n, n + 1}
    BY <1>2 DEF TerminalSo
  <2>2. made # <<>>
    BY <2>1, EmptySeq
  <2> QED BY <2>1, <2>2
<1>5. \A k \in 1 .. n : /\ full /\ made[k].item \in Positions /\ Missing(made[k].item)
                        /\ made[k] = Supply(made[k].item)
  BY <1>2, Zenon DEF TerminalSo
<1>6. /\ \A j, k \in 1 .. n : j < k => made[j].item < made[k].item
      /\ full => \A i \in Positions : Missing(i) => \E k \in 1 .. n : made[k].item = i
  BY <1>2, Zenon DEF TerminalSo
<1>7. \A i \in Positions :
          /\ Supply(i).whole /\ Supply(i).chunk.kind \in {"tool", "text"}
          /\ Supply(i).chunk.gives = {}
  BY DEF Supply, TextChunk, CallArguments, Carry, Plain, ToolDelta
<1>8. \A k \in 1 .. n :
          /\ made[k].whole /\ made[k].chunk.kind \in {"tool", "text"}
          /\ made[k].chunk.gives = {}
  BY <1>5, <1>7
<1>9. /\ m = n + 1 => made[n + 1] = Carry(Plain("usage"), 0, FALSE)
      /\ made[m + 1] = [Carry(Plain("finish"), 0, FALSE)
                          EXCEPT !.reason = FinishReason(status, hasToolUse)]
      /\ made[m + 2] = Carry(Plain("done"), 0, FALSE)
  <2>1. /\ m = IF counted THEN n + 1 ELSE n
        /\ counted => made[n + 1] = Carry(Plain("usage"), 0, FALSE)
        /\ made[m + 1] = [Carry(Plain("finish"), 0, FALSE)
                            EXCEPT !.reason = FinishReason(status, hasToolUse)]
        /\ made[m + 2] = Carry(Plain("done"), 0, FALSE)
    BY <1>2, Zenon DEF TerminalSo
  <2>2. m = n + 1 => counted
    BY <2>1
  <2> QED BY <2>1, <2>2, Zenon
<1>10. /\ \A k \in n + 1 .. m + 2 :
            /\ ~made[k].whole /\ made[k].chunk.gives = {}
            /\ made[k].chunk.kind = "finish" <=> k = m + 1
       /\ made[m + 1].reason = FinishReason(status, hasToolUse)
  <2>1. \A k \in n + 1 .. m + 2 : (m = n + 1 /\ k = n + 1) \/ k = m + 1 \/ k = m + 2
    BY <1>4
  <2>2. /\ ~made[m + 1].whole /\ made[m + 1].chunk.gives = {} /\ made[m + 1].chunk.kind = "finish"
        /\ ~made[m + 2].whole /\ made[m + 2].chunk.gives = {} /\ made[m + 2].chunk.kind # "finish"
        /\ made[m + 1].reason = FinishReason(status, hasToolUse)
    BY <1>9 DEF Carry, Plain
  <2>3. m = n + 1 => ~made[n + 1].whole /\ made[n + 1].chunk.gives = {} /\ made[n + 1].chunk.kind # "finish"
    BY <1>9 DEF Carry, Plain
  <2> QED BY <1>4, <2>1, <2>2, <2>3
<1>11. TerminalSent(made, n, m, full, status)
  BY <1>4, <1>5, <1>6, <1>8, <1>10, Zenon DEF TerminalSent
<1> QED BY <1>3, <1>11, Zenon

LEMMA WholesStep ==
    ASSUME EventsTypeOK, WholesCounted, Complete', [CodexNext]_<<vars, codexVars>>
    PROVE  WholesCounted'
<1>1. ASSUME UNCHANGED <<output, streamed, forwarded, pending>>,
             backend'.terminals = backend.terminals, backend'.full = backend.full
      PROVE  WholesCounted'
  BY <1>1 DEF WholesCounted, WholeAhead, Due, Missing, Positions, Id, Carries
<1>2. ASSUME pending = <<>>, \A k \in 1 .. Len(pending') : ~pending'[k].whole,
             UNCHANGED <<output, forwarded>>, backend'.full = backend.full,
             backend'.terminals = backend.terminals,
             streamed' = streamed \/ backend.terminals = 0
      PROVE  WholesCounted'
  <2>1. \A i : ~WholeAhead(i) /\ ~WholeAhead(i)'
    BY <1>2, EmptySeq DEF WholeAhead
  <2>2. \A i \in Positions : Due(i)' <=> Due(i)
    BY <1>2 DEF Due, Missing, Id, Carries
  <2> QED BY <1>2, <2>1, <2>2 DEF WholesCounted, Positions
<1>3. ASSUME NEW i \in Positions, OutputItemAdded(i)
      PROVE  WholesCounted'
  <2>1. /\ pending = <<>> /\ pending' = <<CallStart(i)>> /\ UNCHANGED <<output, streamed, forwarded>>
        /\ ~CallStart(i).whole
    BY <1>3 DEF OutputItemAdded, Quiet, unseen, CallStart, Carry
  <2>2. \A k \in 1 .. Len(pending') : ~pending'[k].whole
    BY <2>1, Alone
  <2> QED BY <1>2, <1>3, <2>1, <2>2, BackendSteps
<1>4. ASSUME NEW i \in Positions, OutputTextDelta(i) \/ ArgumentsDelta(i)
      PROVE  WholesCounted'
  <2>1. Delta(i) /\ MannersOf(i) \subseteq manners'
    BY <1>4 DEF OutputTextDelta, ArgumentsDelta
  <2>2. pending' = <<>> \/ \E cargo : pending' = <<cargo>> /\ ~cargo.whole
    BY <1>4 DEF OutputTextDelta, ArgumentsDelta, TextChunk, CallArguments, Carry,
                Plain, ToolDelta
  <2>3. \A k \in 1 .. Len(pending') : ~pending'[k].whole
    BY <2>2, Alone, EmptySeq
  <2>4. pending = <<>> /\ UNCHANGED <<output, forwarded>> /\ backend.terminals = 0
    BY <2>1, InComplete DEF Delta, Quiet, unseen
  <2> QED BY <1>2, <2>1, <2>3, <2>4, BackendSteps
<1>5. ASSUME NEW i \in Positions, OutputItemDone(i)
      PROVE  WholesCounted'
  BY <1>1, <1>5, BackendSteps DEF OutputItemDone, unseen
<1>6. ASSUME NEW status \in Statuses, NEW full \in BOOLEAN, NEW counted \in BOOLEAN,
             Terminal(status, full, counted)
      PROVE  WholesCounted'
  <2>1. /\ pending = <<>> /\ UNCHANGED <<output, streamed, forwarded>>
        /\ MannersOfTerminal(full, counted) \subseteq manners'
    BY <1>6 DEF Terminal, Quiet
  <2>2. /\ output \in Outputs /\ backend.terminals = 0
        /\ backend'.terminals = backend.terminals + 1 /\ backend'.full = full
    BY <1>6, <2>1, InComplete, BackendTypes, TerminalStep
  <2>03. PICK n \in Nat, m \in Nat : TerminalSent(pending', n, m, full, status)
    BY <1>6, TerminalSends, Zenon
  <2>3. /\ m \in {n, n + 1} /\ Len(pending') = m + 2
        /\ \A k \in 1 .. n :
              /\ full /\ pending'[k].item \in Positions /\ Missing(pending'[k].item)
              /\ pending'[k].whole /\ pending'[k].chunk.gives = {}
        /\ \A j, k \in 1 .. n : j < k => pending'[j].item < pending'[k].item
        /\ full => \A i \in Positions : Missing(i) => \E k \in 1 .. n : pending'[k].item = i
        /\ \A k \in n + 1 .. m + 2 : ~pending'[k].whole
    BY <2>03, Zenon DEF TerminalSent
  <2>5. \A k \in 1 .. Len(pending') : pending'[k].whole => k \in 1 .. n
    <3>1. \A k \in 1 .. m + 2 : k \in 1 .. n \/ k \in n + 1 .. m + 2
      OBVIOUS
    <3> QED BY <2>3, <3>1
  <2>6. ASSUME NEW j \in 1 .. n, NEW k \in 1 .. n, pending'[j].item = pending'[k].item
        PROVE  j = k
    <3>1. pending'[j].item \in Nat
      BY <2>2, <2>3, OutputItems
    <3>2. ~(j < k) /\ ~(k < j)
      BY <2>3, <2>6, <3>1
    <3> QED BY <3>2
  <2>7. \A i \in Positions : WholeAhead(i)' <=> full /\ Missing(i)
    <3>1. \A k \in 1 .. n : k \in 1 .. Len(pending')
      BY <2>3
    <3> QED BY <2>3, <2>5, <3>1 DEF WholeAhead
  <2>8. \A i \in Positions : Due(i)' <=> full /\ Missing(i)
    BY <2>1, <2>2 DEF Due, Missing, Id, Carries
  <2>9. \A i \in Positions : forwarded[i].wholes = 0
    <3>1. \A i \in Positions : ~WholeAhead(i) /\ ~Due(i) /\ forwarded[i].wholes \in Nat
      BY <2>1, <2>2, EmptySeq DEF WholeAhead, Due, EventsTypeOK
    <3> QED BY <3>1 DEF WholesCounted
  <2>10. \A j, k \in 1 .. Len(pending') :
            pending'[j].whole /\ pending'[k].whole /\ pending'[j].item = pending'[k].item => j = k
    BY <2>5, <2>6
  <2>11. \A k \in 1 .. Len(pending') : pending'[k].whole => pending'[k].chunk.gives = {}
    BY <2>3, <2>5
  <2> QED BY <2>1, <2>7, <2>8, <2>9, <2>10, <2>11 DEF WholesCounted, Positions
<1>7. CASE Fails \/ BodyEnds
  <2>1. /\ pending = <<>> /\ (pending' = <<>> \/ pending' = <<Failure>>)
        /\ UNCHANGED <<output, streamed, forwarded>>
        /\ backend'.full = backend.full /\ backend'.terminals = backend.terminals
    BY <1>7, BackendSteps DEF Fails, BodyEnds, Quiet, unseen
  <2>2. \A k \in 1 .. Len(pending') : ~pending'[k].whole
    <3>1. ~Failure.whole
      BY DEF Failure, Carry
    <3> QED BY <2>1, <3>1, Alone, EmptySeq
  <2> QED BY <1>2, <2>1, <2>2
<1>8. CASE ConverterReceives
  <2>1. PICK cargo \in Cargo : cargo = pending[1]
    BY <1>8, ReceivesHead
  <2>2. /\ forwarded' = Forward(cargo) /\ UNCHANGED <<output, backend, streamed>>
        /\ cargo.item \in {0} \cup Positions
        /\ forwarded \in [Positions -> [parts : Nat, wholes : Nat]]
        /\ Len(pending) \in Nat /\ 1 \in 1 .. Len(pending) /\ Len(pending') = Len(pending) - 1
        /\ \A k \in 1 .. Len(pending') : pending'[k] = pending[k + 1] /\ k + 1 \in 1 .. Len(pending)
    BY <1>8, <2>1, ReceivesHead DEF Cargo, EventsTypeOK
  <2>3. \A j, k \in 1 .. Len(pending) :
            pending[j].whole /\ pending[k].whole /\ pending[j].item = pending[k].item => j = k
    BY DEF WholesCounted
  <2>4. \A j, k \in 1 .. Len(pending') :
            pending'[j].whole /\ pending'[k].whole /\ pending'[j].item = pending'[k].item => j = k
    <3> SUFFICES ASSUME NEW j \in 1 .. Len(pending'), NEW k \in 1 .. Len(pending'),
                        pending'[j].whole, pending'[k].whole, pending'[j].item = pending'[k].item
                 PROVE  j = k
      OBVIOUS
    <3>1. j + 1 = k + 1
      BY <2>2, <2>3
    <3> QED BY <3>1
  <2>5. \A k \in 1 .. Len(pending) : pending[k].whole => pending[k].chunk.gives = {}
    BY DEF WholesCounted
  <2>6. \A k \in 1 .. Len(pending') : pending'[k].whole => pending'[k].chunk.gives = {}
    BY <2>2, <2>5
  <2>7. ASSUME NEW i \in Positions
        PROVE  forwarded'[i].wholes + (IF WholeAhead(i)' THEN 1 ELSE 0)
                  = forwarded[i].wholes + (IF WholeAhead(i) THEN 1 ELSE 0)
    <3>1. i # 0 /\ forwarded[i].wholes \in Nat
      BY <2>2, BackendTypes, OutputItems
    <3>2. WholeAhead(i) <=> (cargo.item = i /\ cargo.whole) \/ WholeAhead(i)'
      <4>1. WholeAhead(i)' => WholeAhead(i)
        BY <2>2 DEF WholeAhead
      <4>2. cargo.item = i /\ cargo.whole => WholeAhead(i)
        BY <2>1, <2>2 DEF WholeAhead
      <4>3. ASSUME NEW k \in 1 .. Len(pending), pending[k].item = i, pending[k].whole, k # 1
            PROVE  WholeAhead(i)'
        <5>1. k - 1 \in 1 .. Len(pending') /\ (k - 1) + 1 = k
          BY <2>2, <4>3
        <5>2. pending'[k - 1] = pending[k]
          BY <2>2, <5>1
        <5> QED BY <4>3, <5>1, <5>2 DEF WholeAhead
      <4> QED BY <2>1, <4>1, <4>2, <4>3 DEF WholeAhead
    <3>3. cargo.item = i /\ cargo.whole => ~WholeAhead(i)'
      <4> SUFFICES ASSUME cargo.item = i, cargo.whole,
                          NEW k \in 1 .. Len(pending'), pending'[k].item = i, pending'[k].whole
                   PROVE  FALSE
        BY DEF WholeAhead
      <4>1. k + 1 = 1
        BY <2>1, <2>2, <2>3
      <4> QED BY <4>1
    <3>4. cargo.item = i /\ cargo.whole => forwarded'[i].wholes = forwarded[i].wholes + 1
      BY <2>1, <2>2, <2>5, <3>1 DEF Forward
    <3>5. ~(cargo.item = i /\ cargo.whole) => forwarded'[i].wholes = forwarded[i].wholes
      BY <2>2, <3>1 DEF Forward
    <3> QED BY <3>1, <3>2, <3>3, <3>4, <3>5
  <2>8. \A i \in Positions : Due(i)' <=> Due(i)
    BY <2>2 DEF Due, Missing, Id, Carries
  <2> QED BY <2>2, <2>4, <2>6, <2>7, <2>8 DEF WholesCounted, Positions
<1>9. CASE ChannelEnds \/ ConverterWrites \/ UNCHANGED <<vars, codexVars>>
  BY <1>1, <1>9, ConverterAlone DEF codexVars
<1> QED BY <1>3, <1>4, <1>5, <1>6, <1>7, <1>8, <1>9 DEF CodexNext

LEMMA EndStep ==
    ASSUME ConverterInv, EventsTypeOK, EndKnown, [CodexNext]_<<vars, codexVars>>
    PROVE  EndKnown'
<1>1. ASSUME Quiet, UNCHANGED vars, backend'.open,
             "terminal" \in guard' => backend'.terminals > 0
      PROVE  EndKnown'
  BY <1>1 DEF Quiet, vars, EndKnown, AtEnd
<1>2. ASSUME NEW i \in Positions, OutputItemAdded(i)
      PROVE  EndKnown'
  <2>1. Quiet /\ UNCHANGED <<vars, guard>>
    BY <1>2 DEF OutputItemAdded, unseen
  <2>2. backend'.open = backend.open /\ backend'.terminals = backend.terminals
    BY <1>2, BackendSteps
  <2> QED BY <1>1, <2>1, <2>2 DEF Quiet, EndKnown
<1>3. ASSUME NEW i \in Positions, Delta(i)
      PROVE  EndKnown'
  <2>1. Quiet /\ UNCHANGED <<vars, guard>>
    BY <1>3 DEF Delta, unseen
  <2>2. backend'.open = backend.open /\ backend'.terminals = backend.terminals
    BY <1>3, BackendSteps
  <2> QED BY <1>1, <2>1, <2>2 DEF Quiet, EndKnown
<1>4. ASSUME NEW i \in Positions, OutputItemDone(i)
      PROVE  EndKnown'
  <2>1. Quiet /\ UNCHANGED <<vars, guard>>
    BY <1>4 DEF OutputItemDone, unseen
  <2>2. backend'.open = backend.open /\ backend'.terminals = backend.terminals
    BY <1>4, BackendSteps
  <2> QED BY <1>1, <2>1, <2>2 DEF Quiet, EndKnown
<1>5. ASSUME NEW status \in Statuses, NEW full \in BOOLEAN, NEW counted \in BOOLEAN,
             Terminal(status, full, counted)
      PROVE  EndKnown'
  <2>1. Quiet /\ UNCHANGED vars
    BY <1>5 DEF Terminal
  <2>2. backend'.open = backend.open /\ backend'.terminals > 0
    BY <1>5, TerminalStep, BackendTypes
  <2> QED BY <1>1, <2>1, <2>2 DEF Quiet
<1>6. CASE Fails
  BY <1>1, <1>6 DEF Fails, Quiet, EndKnown
<1>7. CASE BodyEnds
  <2>1. Quiet /\ UNCHANGED <<vars, guard>> /\ backend'.terminals = backend.terminals
    BY <1>7, BackendSteps DEF BodyEnds, unseen
  <2>2. place = "receive" /\ place' = "receive"
    BY <2>1 DEF Quiet, vars
  <2>3. CASE guard = {}
    <3>1. pending' = <<Failure>> /\ Failure.chunk.kind = "error"
      BY <1>7, <2>3 DEF BodyEnds, Failure, Carry, Plain
    <3>2. pending' # <<>> /\ pending'[1].chunk.kind = "error"
      BY <3>1, Alone
    <3> QED BY <2>1, <2>2, <2>3, <3>2 DEF EndKnown, AtEnd
  <2>4. CASE guard # {}
    <3>1. "terminal" \in guard
      BY <2>1, <2>4 DEF Quiet, EventsTypeOK
    <3> QED BY <2>1, <2>2, <3>1 DEF EndKnown, AtEnd
  <2> QED BY <2>3, <2>4
<1>8. CASE ConverterReceives
  <2>1. Receive(pending[1].chunk) /\ UNCHANGED <<backend, guard>> /\ pending # <<>>
    BY <1>8, ReceivesHead
  <2>2. /\ place = "receive" /\ chunk' = pending[1].chunk /\ place' \notin {"finish", "returned"}
        /\ place' \in {"start", "ping"} => chunk'.kind # "done"
        /\ pending[1].chunk.kind = "error" => place' = "failed"
    BY <2>1 DEF Receive
  <2>3. ~AtEnd'
    BY <2>2, NoChunkType DEF AtEnd
  <2> QED BY <2>1, <2>2, <2>3 DEF EndKnown
<1>9. CASE ChannelEnds
  <2>1. place = "receive" /\ pending = <<>> /\ ~backend.open /\ UNCHANGED codexVars
    BY <1>9 DEF ChannelEnds, ChannelCloses
  <2> QED BY <2>1 DEF EndKnown, codexVars
<1>10. CASE ConverterWrites
  <2>1. UNCHANGED <<pending, backend, guard>>
    BY <1>10 DEF ConverterWrites, codexVars
  <2>2. (AtEnd' => AtEnd) /\ (place' # "failed" => place # "failed")
    BY <1>10 DEF AtEnd, ConverterWrites, WriteMessageStart, WritePing, Skip, CloseTextBlock,
       CloseToolBlock, OpenTextBlock, WriteTextDelta, NoteCall, StartToolBlock, WriteToolInput,
       WriteMessageDelta, WriteMessageStop, WriteFails, Returned, ToArguments, NextChunk, vars,
       ClosesAll, ClosesText, historyVars, converterVars
  <2> QED BY <2>1, <2>2 DEF EndKnown
<1>11. CASE UNCHANGED <<vars, codexVars>>
  BY <1>11 DEF EndKnown, AtEnd, vars, codexVars
<1> QED
  BY <1>2, <1>3, <1>4, <1>5, <1>6, <1>7, <1>8, <1>9, <1>10, <1>11
     DEF CodexNext, OutputTextDelta, ArgumentsDelta

LEMMA AnswerStep ==
    ASSUME EventsTypeOK, AnswerKnown, Complete', [CodexNext]_<<vars, codexVars>>
    PROVE  AnswerKnown'
<1>1. ASSUME UNCHANGED output,
             backend'.terminals = backend.terminals, backend'.full = backend.full,
             backend'.announced = backend.announced, backend'.deltas = backend.deltas,
             backend'.done = backend.done
      PROVE  AnswerKnown'
  BY <1>1 DEF AnswerKnown, Told, IsCall, Positions
<1>2. ASSUME backend'.terminals = backend.terminals, backend.terminals = 0
      PROVE  AnswerKnown'
  BY <1>2 DEF AnswerKnown
<1>3. ASSUME NEW i \in Positions,
             OutputItemAdded(i) \/ OutputTextDelta(i) \/ ArgumentsDelta(i)
      PROVE  AnswerKnown'
  <2>1. MannersOf(i) \subseteq manners' /\ (OutputItemAdded(i) \/ Delta(i))
    BY <1>3 DEF OutputItemAdded, OutputTextDelta, ArgumentsDelta
  <2> QED BY <1>2, <2>1, InComplete, BackendSteps
<1>4. ASSUME NEW i \in Positions, OutputItemDone(i)
      PROVE  AnswerKnown'
  BY <1>2, <1>4, BackendSteps DEF OutputItemDone
<1>5. ASSUME NEW status \in Statuses, NEW full \in BOOLEAN, NEW counted \in BOOLEAN,
             Terminal(status, full, counted)
      PROVE  AnswerKnown'
  <2>1. UNCHANGED output /\ MannersOfTerminal(full, counted) \subseteq manners'
    BY <1>5 DEF Terminal
  <2>2. \A i \in Positions : IsCall(i) => i \in backend.announced
    BY <2>1 DEF MannersOfTerminal, Complete
  <2>3. ~( \/ backend.done \notin {{}, Positions}
           \/ ~full /\ (backend.done = {} \/ \E i \in Positions : ~Told(i)) )
    BY <2>1 DEF MannersOfTerminal, Complete
  <2> QED BY <1>5, <2>1, <2>2, <2>3, TerminalStep DEF AnswerKnown, Told, IsCall, Positions
<1>6. CASE Fails \/ ConverterReceives \/ ChannelEnds \/ ConverterWrites \/ UNCHANGED <<vars, codexVars>>
  BY <1>1, <1>6, ConverterAlone DEF Fails, ConverterReceives, codexVars
<1>7. CASE BodyEnds
  BY <1>1, <1>7, BackendSteps DEF BodyEnds, unseen
<1> QED BY <1>3, <1>4, <1>5, <1>6, <1>7 DEF CodexNext

LEMMA CallsStep ==
    ASSUME ConverterInv, EventsTypeOK, AnnouncedKnown, CallsBegun, Complete', place' # "failed",
           [CodexNext]_<<vars, codexVars>>
    PROVE  CallsBegun'
<1>1. ASSUME Quiet, UNCHANGED <<vars, output>>, backend.announced \subseteq backend'.announced,
             \A k \in 1 .. Len(pending') :
                Names(pending'[k].chunk) => pending'[k].chunk.call \in AnnouncedIndexes',
             \A i \in backend'.announced : i \in backend.announced \/ Beginning(i)'
      PROVE  CallsBegun'
  <2>1. AnnouncedIndexes \subseteq AnnouncedIndexes'
    BY <1>1 DEF AnnouncedIndexes
  <2>2. /\ ~InHand /\ ~InHand' /\ UNCHANGED toolCalls
        /\ \A i \in backend.announced : toolCalls[output[i].index].started
    BY <1>1 DEF Quiet, InHand, vars, CallsBegun, Beginning
  <2> QED BY <1>1, <2>1, <2>2 DEF CallsBegun
<1>2. ASSUME NEW i \in Positions, OutputItemAdded(i)
      PROVE  CallsBegun'
  <2>1. /\ Quiet /\ UNCHANGED <<vars, output>> /\ pending' = <<CallStart(i)>>
        /\ CallStart(i).chunk.kind = "tool" /\ CallStart(i).chunk.call = output[i].index
        /\ CallStart(i).chunk.gives = {"id", "name"}
    BY <1>2 DEF OutputItemAdded, unseen, CallStart, Carry, ToolDelta
  <2>2. backend'.announced = backend.announced \cup {i}
    BY <1>2, BackendSteps
  <2>3. Len(pending') = 1 /\ pending'[1] = CallStart(i) /\ pending' # <<>>
    BY <2>1, Alone
  <2>4. Beginning(i)' /\ output[i].index \in AnnouncedIndexes'
    BY <2>1, <2>2, <2>3 DEF Beginning, AnnouncedIndexes
  <2>5. \A k \in 1 .. Len(pending') :
           Names(pending'[k].chunk) => pending'[k].chunk.call \in AnnouncedIndexes'
    BY <2>1, <2>3, <2>4
  <2>6. backend.announced \subseteq backend'.announced
        /\ \A j \in backend'.announced : j \in backend.announced \/ Beginning(j)'
    BY <2>2, <2>4
  <2> QED BY <1>1, <2>1, <2>5, <2>6
<1>3. ASSUME NEW i \in Positions, OutputTextDelta(i)
      PROVE  CallsBegun'
  <2>1. /\ Quiet /\ UNCHANGED <<vars, output>> /\ pending' = <<TextChunk(i, FALSE)>> /\ Delta(i)
    BY <1>3 DEF OutputTextDelta, Delta, unseen
  <2>2. Len(pending') = 1 /\ pending'[1].chunk.kind = "text"
    BY <2>1, Alone DEF TextChunk, Carry, Plain
  <2>3. backend'.announced = backend.announced
    BY <2>1, BackendSteps
  <2>4. \A k \in 1 .. Len(pending') :
           Names(pending'[k].chunk) => pending'[k].chunk.call \in AnnouncedIndexes'
    BY <2>2 DEF Names
  <2> QED BY <1>1, <2>1, <2>3, <2>4
<1>4. ASSUME NEW i \in Positions, ArgumentsDelta(i)
      PROVE  CallsBegun'
  <2>1. Quiet /\ UNCHANGED <<vars, output>> /\ Delta(i)
    BY <1>4 DEF ArgumentsDelta, Delta, unseen
  <2>2. pending' = <<>> \/ \E cargo : pending' = <<cargo>> /\ cargo.chunk.gives = {}
    BY <1>4 DEF ArgumentsDelta, CallArguments, Carry, ToolDelta
  <2>3. \A k \in 1 .. Len(pending') : ~Names(pending'[k].chunk)
    BY <2>2, Alone, EmptySeq DEF Names
  <2>4. backend'.announced = backend.announced
    BY <2>1, BackendSteps
  <2> QED BY <1>1, <2>1, <2>3, <2>4
<1>5. ASSUME NEW i \in Positions, OutputItemDone(i)
      PROVE  CallsBegun'
  <2>1. Quiet /\ UNCHANGED <<vars, output, pending>> /\ backend'.announced = backend.announced
    BY <1>5, BackendSteps DEF OutputItemDone, unseen
  <2>2. pending = <<>> /\ Len(pending') = 0
    BY <2>1, EmptySeq DEF Quiet
  <2> QED BY <1>1, <2>1, <2>2
<1>6. ASSUME NEW status \in Statuses, NEW full \in BOOLEAN, NEW counted \in BOOLEAN,
             Terminal(status, full, counted)
      PROVE  CallsBegun'
  <2>1. /\ Quiet /\ UNCHANGED <<vars, output>> /\ MannersOfTerminal(full, counted) \subseteq manners'
        /\ backend'.announced = backend.announced
    BY <1>6, TerminalStep DEF Terminal
  <2>2. PICK n \in Nat, m \in Nat : TerminalSent(pending', n, m, full, status)
    BY <1>6, TerminalSends, Zenon
  <2>3. \A k \in 1 .. Len(pending') : pending'[k].chunk.gives = {}
    <3>1. \A k \in 1 .. m + 2 : k \in 1 .. n \/ k \in n + 1 .. m + 2
      OBVIOUS
    <3> QED BY <2>2, <3>1 DEF TerminalSent
  <2> QED BY <1>1, <2>1, <2>3 DEF Names
<1>7. CASE Fails \/ BodyEnds
  <2>1. /\ Quiet /\ UNCHANGED <<vars, output>> /\ backend'.announced = backend.announced
        /\ pending' = <<>> \/ pending' = <<Failure>>
    BY <1>7, BackendSteps DEF Fails, BodyEnds, unseen
  <2>2. \A k \in 1 .. Len(pending') : ~Names(pending'[k].chunk)
    <3>1. ~Names(Failure.chunk)
      BY DEF Failure, Carry, Plain, Names
    <3> QED BY <2>1, <3>1, Alone, EmptySeq
  <2> QED BY <1>1, <2>1, <2>2
<1>8. CASE ConverterReceives
  <2>1. PICK c : c = pending[1].chunk
    OBVIOUS
  <2>2. /\ Receive(c) /\ UNCHANGED <<output, backend>> /\ 1 \in 1 .. Len(pending)
        /\ \A k \in 1 .. Len(pending') : pending'[k] = pending[k + 1] /\ k + 1 \in 1 .. Len(pending)
    BY <1>8, <2>1, ReceivesHead
  <2>3. /\ place = "receive" /\ chunk' = c /\ UNCHANGED toolCalls
        /\ place' = IF c.kind = "done" THEN "receive" ELSE IF started THEN "chunk" ELSE "start"
    BY <2>2 DEF Receive, converterVars
  <2>4. UNCHANGED AnnouncedIndexes
    BY <2>2 DEF AnnouncedIndexes
  <2>5. Names(c) => c.call \in AnnouncedIndexes
    BY <2>1, <2>2 DEF CallsBegun
  <2>6. \A k \in 1 .. Len(pending') :
            Names(pending'[k].chunk) => pending'[k].chunk.call \in AnnouncedIndexes
    BY <2>2 DEF CallsBegun
  <2>7. ASSUME NEW i, Beginning(i)
        PROVE  Beginning(i)'
    <3>1. c.kind = "tool" /\ c.call = output[i].index /\ c.gives = {"id", "name"}
      BY <2>1, <2>3, <2>7 DEF Beginning, InHand
    <3> QED BY <2>2, <2>3, <3>1 DEF Beginning, InHand
  <2> QED BY <2>2, <2>3, <2>4, <2>5, <2>6, <2>7 DEF CallsBegun, Names
<1>9. CASE ChannelEnds
  <2>1. /\ place = "receive" /\ pending = <<>> /\ UNCHANGED codexVars /\ UNCHANGED <<chunk, toolCalls>>
        /\ chunk = NoChunk
    BY <1>9 DEF ChannelEnds, ChannelCloses, converterVars, ConverterInv, ChunkInPlace
  <2>2. \A i \in backend.announced : toolCalls[output[i].index].started
    BY <2>1 DEF CallsBegun, Beginning, InHand
  <2>3. place' # "call" /\ ~Names(chunk')
    BY <1>9, <2>1, NoChunkType DEF ChannelEnds, ChannelCloses, Names
  <2> QED BY <2>1, <2>2, <2>3 DEF CallsBegun, AnnouncedIndexes, codexVars
<1>10. CASE UNCHANGED <<vars, codexVars>>
  BY <1>10 DEF vars, codexVars, CallsBegun, Beginning, InHand, AnnouncedIndexes
<1>11. CASE ConverterWrites
  <2>1. UNCHANGED <<pending, output, backend>> /\ UNCHANGED AnnouncedIndexes
    BY <1>11 DEF ConverterWrites, codexVars, AnnouncedIndexes
  <2>2. ASSUME InHand' /\ chunk'.kind = "tool" => InHand /\ chunk' = chunk,
               place' = "call" => chunk' = chunk /\ chunk.call \in AnnouncedIndexes,
               \A call \in Calls : toolCalls'[call].started \/ toolCalls'[call].has # {} =>
                  toolCalls[call].started \/ toolCalls[call].has # {} \/ call \in AnnouncedIndexes,
               \A call \in Calls :
                  \/ toolCalls[call].started
                  \/ /\ InHand /\ chunk.kind = "tool" /\ chunk.call = call
                     /\ place = "call" \/ (place # "args" /\ chunk.gives = {"id", "name"})
                  => \/ toolCalls'[call].started
                     \/ /\ InHand' /\ chunk'.kind = "tool" /\ chunk'.call = call
                        /\ place' = "call" \/ (place' # "args" /\ chunk'.gives = {"id", "name"})
        PROVE  CallsBegun'
    <3>1. \A i \in backend.announced : output[i].index \in Calls
      BY BackendTypes, OutputItems
    <3>2. \A i \in backend.announced : toolCalls'[output[i].index].started \/ Beginning(i)'
      BY <2>1, <2>2, <3>1 DEF CallsBegun, Beginning
    <3>3. /\ \A k \in 1 .. Len(pending') :
                Names(pending'[k].chunk) => pending'[k].chunk.call \in AnnouncedIndexes'
          /\ InHand' /\ (Names(chunk') \/ place' = "call") => chunk'.call \in AnnouncedIndexes'
          /\ \A call \in Calls :
                toolCalls'[call].started \/ toolCalls'[call].has # {} => call \in AnnouncedIndexes'
      BY <2>1, <2>2 DEF CallsBegun, Names
    <3> QED BY <2>1, <3>2, <3>3 DEF CallsBegun
  <2>3. ASSUME UNCHANGED toolCalls,
               (InHand' /\ UNCHANGED <<place, chunk>>) \/ chunk.kind # "tool" \/ place = "args"
               \/ (place = "start" /\ place' = "ping" /\ UNCHANGED chunk)
               \/ (place = "ping" /\ place' = "chunk" /\ UNCHANGED chunk) \/ ~InHand,
               InHand' /\ chunk'.kind = "tool" => InHand /\ chunk' = chunk,
               place' = "call" => place = "call" /\ chunk' = chunk
        PROVE  CallsBegun'
    <3>1. place' = "call" => chunk' = chunk /\ chunk.call \in AnnouncedIndexes
      BY <2>3 DEF CallsBegun, InHand
    <3> QED BY <2>2, <2>3, <3>1 DEF InHand
  <2>4. CASE WriteMessageStart \/ WritePing
    BY <2>3, <2>4, NoChunkType
       DEF WriteMessageStart, WritePing, converterVars, historyVars, InHand
  <2>5. CASE Skip \/ WriteTextDelta
    BY <2>3, <2>5 DEF Skip, WriteTextDelta, NextChunk, converterVars, InHand
  <2>6. CASE CloseTextBlock \/ OpenTextBlock
    BY <2>3, <2>6 DEF CloseTextBlock, OpenTextBlock, InHand
  <2>7. CASE WriteToolInput
    BY <2>3, <2>7 DEF WriteToolInput, NextChunk, converterVars, InHand
  <2>8. CASE WriteMessageDelta \/ WriteMessageStop
    BY <2>3, <2>8 DEF WriteMessageDelta, WriteMessageStop, NextChunk, converterVars, InHand
  <2>9. CASE WriteFails \/ Returned
    <3>1. UNCHANGED <<vars, codexVars>>
      BY <1>11, <2>9 DEF WriteFails, Returned, ConverterWrites
    <3> QED BY <1>10, <3>1
  <2>10. toolCalls \in [Calls -> CallStates] /\ (chunk.kind = "tool" => chunk.call \in Calls)
    BY DEF ConverterInv, ConverterTypeOK, ChunkInPlace
  <2>11. ASSUME NEW call \in Calls, CloseToolBlock(call)
         PROVE  CallsBegun'
    <3>1. UNCHANGED <<place, chunk>> /\ toolCalls' = [toolCalls EXCEPT ![call].closed = TRUE]
      BY <2>11 DEF CloseToolBlock
    <3>2. \A other \in Calls : /\ toolCalls'[other].started = toolCalls[other].started
                               /\ toolCalls'[other].has = toolCalls[other].has
      BY <2>10, <3>1 DEF CallStates
    <3>3. place' = "call" => chunk' = chunk /\ chunk.call \in AnnouncedIndexes
      BY <3>1 DEF CallsBegun, InHand
    <3> QED BY <2>2, <3>1, <3>2, <3>3 DEF InHand
  <2>12. CASE NoteCall
    <3> DEFINE state == toolCalls[chunk.call]
               noted == [state EXCEPT !.seen = TRUE, !.has = @ \cup chunk.gives,
                                      !.blockIndex = IF state.seen THEN @ ELSE blockIdx]
    <3>1. /\ place = "chunk" /\ chunk.kind = "tool"
          /\ toolCalls' = [toolCalls EXCEPT ![chunk.call] = noted]
          /\ IF ~noted.started /\ noted.has = {"id", "name"}
                THEN place' = "call" /\ UNCHANGED chunk
                ELSE ToArguments
      BY <2>12 DEF NoteCall
    <3>2. /\ noted.started = state.started /\ noted.has = state.has \cup chunk.gives
          /\ state.has \subseteq {"id", "name"}
      BY <2>10, <3>1 DEF CallStates
    <3> HIDE DEF noted
    <3>3. \A call \in Calls :
             /\ toolCalls'[call].started = toolCalls[call].started
             /\ toolCalls'[call].has # {} =>
                   toolCalls[call].has # {} \/ (call = chunk.call /\ chunk.gives # {})
      BY <2>10, <3>1, <3>2
    <3>8. chunk.gives # {} => chunk.call \in AnnouncedIndexes
      BY <3>1 DEF CallsBegun, Names, InHand
    <3>9. \A call \in Calls : toolCalls'[call].started \/ toolCalls'[call].has # {} =>
             toolCalls[call].started \/ toolCalls[call].has # {} \/ call \in AnnouncedIndexes
      BY <3>3, <3>8
    <3>10. place' = "call" => chunk' = chunk /\ chunk.call \in AnnouncedIndexes
      <4>1. ASSUME place' = "call"
            PROVE  chunk' = chunk /\ noted.has = {"id", "name"}
        BY <3>1, <4>1 DEF ToArguments, NextChunk
      <4>2. noted.has = {"id", "name"} => state.has # {} \/ chunk.gives # {}
        BY <3>2
      <4>3. state.has # {} => chunk.call \in AnnouncedIndexes
        BY <2>10, <3>1 DEF CallsBegun
      <4> QED BY <3>8, <4>1, <4>2, <4>3
    <3>4. chunk.gives = {"id", "name"} => noted.has = {"id", "name"}
      BY <3>2
    <3>5. InHand' /\ chunk'.kind = "tool" => InHand /\ chunk' = chunk
      BY <3>1, NoChunkType DEF InHand, ToArguments, NextChunk
    <3>6. chunk.gives = {"id", "name"} /\ ~state.started => place' = "call" /\ chunk' = chunk
      BY <3>1, <3>2, <3>4
    <3> HIDE DEF state
    <3>11. state = toolCalls[chunk.call]
      BY DEF state
    <3> QED BY <2>2, <2>10, <3>1, <3>3, <3>5, <3>6, <3>9, <3>10, <3>11 DEF InHand
  <2>13. CASE StartToolBlock
    <3>1. /\ place = "call" /\ toolCalls' = [toolCalls EXCEPT ![chunk.call].started = TRUE]
          /\ ToArguments
      BY <2>13 DEF StartToolBlock
    <3>2. chunk.kind = "tool" /\ chunk.call \in Calls /\ chunk.call \in AnnouncedIndexes
      BY <2>10, <3>1 DEF ConverterInv, ChunkInPlace, CallsBegun, InHand
    <3>3. /\ toolCalls'[chunk.call].started
          /\ \A call \in Calls \ {chunk.call} : toolCalls'[call].started = toolCalls[call].started
          /\ \A call \in Calls : toolCalls'[call].has = toolCalls[call].has
      BY <2>10, <3>1, <3>2 DEF CallStates
    <3>4. InHand' /\ chunk'.kind = "tool" => InHand /\ chunk' = chunk
      BY <3>1, NoChunkType DEF InHand, ToArguments, NextChunk
    <3>5. place' # "call"
      BY <3>1 DEF ToArguments, NextChunk
    <3>6. \A call \in Calls : toolCalls'[call].started \/ toolCalls'[call].has # {} =>
             toolCalls[call].started \/ toolCalls[call].has # {} \/ call \in AnnouncedIndexes
      BY <3>2, <3>3
    <3> QED BY <2>2, <3>1, <3>2, <3>3, <3>4, <3>5, <3>6
  <2> QED
    BY <1>11, <2>4, <2>5, <2>6, <2>7, <2>8, <2>9, <2>11, <2>12, <2>13 DEF ConverterWrites
<1> QED BY <1>2, <1>3, <1>4, <1>5, <1>6, <1>7, <1>8, <1>9, <1>10, <1>11 DEF CodexNext

LEMMA ReasonStep ==
    ASSUME ConverterInv, EventsTypeOK, EndKnown, ReasonKnown, Complete', place' # "failed",
           [CodexNext]_<<vars, codexVars>>
    PROVE  ReasonKnown'
<1>1. ASSUME Quiet, UNCHANGED <<vars, reason>>,
             backend'.terminals = backend.terminals, backend'.status = backend.status,
             hasToolUse' = hasToolUse \/ backend.terminals = 0,
             \A k \in 1 .. Len(pending') : pending'[k].chunk.kind # "finish"
      PROVE  ReasonKnown'
  <2>1. ~FinishAhead
    BY <1>1, EmptySeq DEF Quiet, FinishAhead
  <2>2. ~FinishAhead' /\ (InHand' <=> InHand) /\ UNCHANGED <<finished, chunk>>
    BY <1>1 DEF FinishAhead, InHand, vars
  <2>3. backend.terminals > 0 => hasToolUse' = hasToolUse
    BY <1>1
  <2> QED BY <1>1, <2>1, <2>2, <2>3 DEF ReasonKnown
<1>2. \A i : CallStart(i).chunk.kind # "finish" /\ Failure.chunk.kind # "finish"
  BY DEF CallStart, Failure, Carry, Plain, ToolDelta
<1>3. ASSUME NEW i \in Positions, OutputItemAdded(i)
      PROVE  ReasonKnown'
  <2>1. /\ Quiet /\ UNCHANGED <<vars, reason>> /\ pending' = <<CallStart(i)>>
        /\ MannersOf(i) \subseteq manners'
    BY <1>3 DEF OutputItemAdded, unseen
  <2>2. backend.terminals = 0
    BY <2>1, InComplete
  <2>3. \A k \in 1 .. Len(pending') : pending'[k].chunk.kind # "finish"
    BY <1>2, <2>1, Alone
  <2> QED BY <1>1, <1>3, <2>1, <2>2, <2>3, BackendSteps
<1>4. ASSUME NEW i \in Positions, OutputTextDelta(i) \/ ArgumentsDelta(i)
      PROVE  ReasonKnown'
  <2>1. Delta(i) /\ Quiet /\ UNCHANGED <<vars, reason, hasToolUse>>
    BY <1>4 DEF OutputTextDelta, ArgumentsDelta, Delta, unseen
  <2>2. pending' = <<>> \/ \E cargo : pending' = <<cargo>> /\ cargo.chunk.kind # "finish"
    BY <1>4 DEF OutputTextDelta, ArgumentsDelta, TextChunk, CallArguments, Carry, Plain, ToolDelta
  <2>3. \A k \in 1 .. Len(pending') : pending'[k].chunk.kind # "finish"
    BY <2>2, Alone, EmptySeq
  <2> QED BY <1>1, <2>1, <2>3, BackendSteps
<1>5. ASSUME NEW i \in Positions, OutputItemDone(i)
      PROVE  ReasonKnown'
  <2>1. Quiet /\ UNCHANGED <<vars, reason, hasToolUse>> /\ pending' = <<>>
    BY <1>5 DEF OutputItemDone, unseen, Quiet
  <2>2. \A k \in 1 .. Len(pending') : pending'[k].chunk.kind # "finish"
    BY <2>1, EmptySeq
  <2> QED BY <1>1, <1>5, <2>1, <2>2, BackendSteps
<1>6. ASSUME NEW status \in Statuses, NEW full \in BOOLEAN, NEW counted \in BOOLEAN,
             Terminal(status, full, counted)
      PROVE  ReasonKnown'
  <2>01. /\ Quiet /\ UNCHANGED <<vars, reason, hasToolUse>>
        /\ MannersOfTerminal(full, counted) \subseteq manners'
    BY <1>6 DEF Terminal
  <2>02. backend.terminals = 0
    BY <2>01, InComplete
  <2>1. /\ Quiet /\ UNCHANGED <<vars, reason, hasToolUse>> /\ backend.terminals = 0
        /\ backend'.terminals = 1 /\ backend'.status = status
    BY <1>6, <2>01, <2>02, TerminalStep
  <2>2. ~finished' /\ ~(InHand' /\ chunk'.kind = "finish")
    BY <2>1 DEF ReasonKnown, Quiet, InHand, vars
  <2>3. PICK n \in Nat, m \in Nat : TerminalSent(pending', n, m, full, status)
    BY <1>6, TerminalSends, Zenon
  <2>4. /\ m \in {n, n + 1} /\ Len(pending') = m + 2
        /\ \A k \in 1 .. n : pending'[k].chunk.kind \in {"tool", "text"}
        /\ \A k \in n + 1 .. m + 2 : pending'[k].chunk.kind = "finish" <=> k = m + 1
    BY <2>3, Zenon DEF TerminalSent
  <2>5. pending'[m + 1].reason = FinishReason(status, hasToolUse)
    BY <2>3, Zenon DEF TerminalSent
  <2>6. \A k \in 1 .. Len(pending') : pending'[k].chunk.kind = "finish" <=> k = m + 1
    <3>1. \A k \in 1 .. n : pending'[k].chunk.kind # "finish" /\ k # m + 1
      BY <2>4
    <3>2. \A k \in 1 .. Len(pending') : k \in 1 .. n \/ k \in n + 1 .. m + 2
      BY <2>4
    <3> QED BY <2>4, <3>1, <3>2
  <2>7. FinishAhead'
    <3>1. m + 1 \in 1 .. Len(pending')
      BY <2>4
    <3> QED BY <2>6, <3>1 DEF FinishAhead
  <2> QED BY <2>1, <2>2, <2>5, <2>6, <2>7 DEF ReasonKnown
<1>7. CASE Fails \/ BodyEnds
  <2>1. /\ Quiet /\ UNCHANGED <<vars, reason, hasToolUse>>
        /\ backend'.terminals = backend.terminals /\ backend'.status = backend.status
        /\ pending' = <<>> \/ pending' = <<Failure>>
    BY <1>7, BackendSteps DEF Fails, BodyEnds, unseen
  <2>2. \A k \in 1 .. Len(pending') : pending'[k].chunk.kind # "finish"
    BY <1>2, <2>1, Alone, EmptySeq
  <2> QED BY <1>1, <2>1, <2>2
<1>8. CASE ConverterReceives
  <2>1. PICK cargo : cargo = pending[1]
    OBVIOUS
  <2>2. /\ Receive(cargo.chunk) /\ UNCHANGED <<backend, hasToolUse>>
        /\ 1 \in 1 .. Len(pending) /\ Len(pending) \in Nat /\ Len(pending') = Len(pending) - 1
        /\ \A k \in 1 .. Len(pending') : pending'[k] = pending[k + 1] /\ k + 1 \in 1 .. Len(pending)
        /\ reason' = IF cargo.chunk.kind = "finish" /\ ~finished THEN cargo.reason ELSE reason
    BY <1>8, <2>1, ReceivesHead
  <2>3. chunk' = cargo.chunk /\ finished' = finished
    BY <2>2 DEF Receive, converterVars
  <2>4. FinishAhead' => FinishAhead /\ cargo.chunk.kind # "finish"
    <3>1. SUFFICES ASSUME NEW k \in 1 .. Len(pending'), pending'[k].chunk.kind = "finish"
                   PROVE  FinishAhead /\ cargo.chunk.kind # "finish"
      BY DEF FinishAhead
    <3>2. k + 1 \in 1 .. Len(pending) /\ pending[k + 1].chunk.kind = "finish" /\ k + 1 # 1
      BY <2>2, <3>1
    <3> QED BY <2>1, <2>2, <3>2 DEF FinishAhead, ReasonKnown
  <2>5. FinishAhead => cargo.chunk.kind = "finish" \/ FinishAhead'
    <3>1. SUFFICES ASSUME NEW k \in 1 .. Len(pending), pending[k].chunk.kind = "finish", k # 1
                   PROVE  FinishAhead'
      BY <2>1 DEF FinishAhead
    <3>2. k - 1 \in 1 .. Len(pending') /\ pending'[k - 1] = pending[k]
      BY <2>2, <3>1
    <3> QED BY <3>1, <3>2 DEF FinishAhead
  <2>6. cargo.chunk.kind = "finish" => FinishAhead /\ ~finished
                                       /\ cargo.reason = FinishReason(backend.status, hasToolUse)
    BY <2>1, <2>2 DEF FinishAhead, ReasonKnown
  <2>7. backend.terminals = 0 => ~FinishAhead' /\ cargo.chunk.kind # "finish"
    BY <2>4, <2>6 DEF ReasonKnown
  <2>8. backend.terminals = 0 \/ FinishAhead' => ~finished' /\ ~(InHand' /\ chunk'.kind = "finish")
    BY <2>3, <2>4, <2>7 DEF ReasonKnown
  <2>9. backend.terminals > 0 => FinishAhead' \/ reason' = FinishReason(backend.status, hasToolUse)
    BY <2>2, <2>5, <2>6 DEF ReasonKnown
  <2>10. ASSUME NEW k \in 1 .. Len(pending'), pending'[k].chunk.kind = "finish"
         PROVE  /\ pending'[k].reason = FinishReason(backend.status, hasToolUse)
                /\ \A j \in 1 .. Len(pending') : pending'[j].chunk.kind = "finish" => j = k
    <3>1. k + 1 \in 1 .. Len(pending) /\ pending[k + 1].chunk.kind = "finish"
          /\ pending'[k] = pending[k + 1]
      BY <2>2, <2>10
    <3>2. pending'[k].reason = FinishReason(backend.status, hasToolUse)
      BY <3>1 DEF ReasonKnown
    <3>3. ASSUME NEW j \in 1 .. Len(pending'), pending'[j].chunk.kind = "finish"
          PROVE  j = k
      <4>1. j + 1 \in 1 .. Len(pending) /\ pending[j + 1].chunk.kind = "finish"
        BY <2>2, <3>3
      <4>2. j + 1 = k + 1
        BY <3>1, <4>1 DEF ReasonKnown
      <4> QED BY <4>2
    <3> QED BY <3>2, <3>3
  <2> QED BY <2>2, <2>7, <2>8, <2>9, <2>10 DEF ReasonKnown
<1>9. CASE ChannelEnds
  <2>1. /\ UNCHANGED codexVars /\ UNCHANGED <<chunk, finished>> /\ chunk.kind = "done"
    BY <1>9, NoChunkType
       DEF ChannelEnds, ChannelCloses, converterVars, ConverterInv, ChunkInPlace
  <2> QED BY <2>1 DEF ReasonKnown, FinishAhead, codexVars, InHand
<1>10. CASE UNCHANGED <<vars, codexVars>>
  BY <1>10 DEF vars, codexVars, ReasonKnown, FinishAhead, InHand
<1>11. CASE ConverterWrites
  <2>1. UNCHANGED <<pending, backend, hasToolUse, reason>> /\ (FinishAhead' <=> FinishAhead)
    BY <1>11 DEF ConverterWrites, codexVars, FinishAhead
  <2>2. /\ InHand' /\ chunk'.kind = "finish" => InHand /\ chunk.kind = "finish"
        /\ finished' => finished \/ (InHand /\ chunk.kind = "finish") \/ place = "finish"
    BY <1>11, NoChunkType
       DEF ConverterWrites, WriteMessageStart, WritePing, Skip, CloseTextBlock,
           CloseToolBlock, OpenTextBlock, WriteTextDelta, NoteCall, StartToolBlock, WriteToolInput,
           WriteMessageDelta, WriteMessageStop, WriteFails, Returned, ToArguments, NextChunk, vars,
           ClosesAll, ClosesText, historyVars, converterVars, InHand
  <2>3. place = "finish" => pending = <<>> /\ backend.terminals > 0
    BY DEF EndKnown, AtEnd
  <2>4. place = "finish" => ~(backend.terminals = 0 \/ FinishAhead)
    BY <2>3, EmptySeq DEF FinishAhead
  <2> QED BY <2>1, <2>2, <2>4 DEF ReasonKnown
<1> QED
  BY <1>3, <1>4, <1>5, <1>6, <1>7, <1>8, <1>9, <1>10, <1>11 DEF CodexNext

LEMMA AnswerInvInit == CodexInit => AnswerInv
<1> SUFFICES ASSUME CodexInit PROVE AnswerInv
  OBVIOUS
<1>1. /\ pending = <<>> /\ Len(pending) = 0 /\ backend.announced = {} /\ backend.terminals = 0
      /\ backend.deltas = [i \in Positions |-> 0] /\ backend.open
      /\ streamed = {} /\ hasToolUse = FALSE /\ guard = {}
      /\ forwarded = [i \in Positions |-> [parts |-> 0, wholes |-> 0]]
  BY EmptySeq DEF CodexInit
<1>2. /\ place = "receive" /\ finished = FALSE
      /\ \A call \in Calls : ~toolCalls[call].started /\ toolCalls[call].has = {}
  BY DEF CodexInit, ConverterInit, NewCall
<1>3. AnnouncedKnown /\ EndKnown
  BY <1>1, <1>2 DEF AnnouncedKnown, EndKnown, AtEnd
<1>4. PartsCounted
  BY <1>1 DEF PartsCounted, PartAhead
<1>5. WholesCounted /\ AnswerKnown
  BY <1>1 DEF WholesCounted, WholeAhead, Due, AnswerKnown
<1>6. CallsBegun /\ ReasonKnown
  BY <1>1, <1>2 DEF CallsBegun, InHand, ReasonKnown, FinishAhead
<1> QED BY <1>3, <1>4, <1>5, <1>6 DEF AnswerInv

LEMMA AnswerInvStep ==
    ASSUME CodexInv, AnswerInv, [CodexNext]_<<vars, codexVars>>
    PROVE  AnswerInv'
<1>1. ConverterInv /\ EventsTypeOK /\ AnnouncedKnown /\ PartsCounted /\ EndKnown
  BY DEF CodexInv, AnswerInv
<1>2. AnnouncedKnown' /\ PartsCounted' /\ EndKnown'
  BY <1>1, AnnouncedStep, PartsStep, EndStep
<1>3. ASSUME Complete'
      PROVE  WholesCounted' /\ AnswerKnown' /\ (place' # "failed" => CallsBegun' /\ ReasonKnown')
  <2>1. Complete
    BY <1>3, MannersGrow DEF Complete
  <2>2. WholesCounted' /\ AnswerKnown'
    BY <1>1, <1>3, <2>1, WholesStep, AnswerStep DEF AnswerInv
  <2>3. ASSUME place' # "failed"
        PROVE  CallsBegun' /\ ReasonKnown'
    BY <1>1, <1>3, <2>1, <2>3, FailedStays, CallsStep, ReasonStep DEF AnswerInv
  <2> QED BY <2>2, <2>3
<1> QED BY <1>2, <1>3 DEF AnswerInv

\* What the client has got of an item.
OnceOrMore(i) ==
    /\ Kept(i) => forwarded[i].parts = backend.deltas[i] /\ forwarded[i].parts + forwarded[i].wholes > 0
    /\ Carries(i, "delta") /\ Carries(i, "listed") =>
          forwarded[i].wholes = (IF backend.deltas[i] = 0 THEN 1 ELSE 0)

\* What the invariant says when the client's stream has been finished.
LEMMA AnswerAtTheEnd ==
    ASSUME CodexInv, AnswerInv
    PROVE  StreamedAsWhole
<1> SUFFICES ASSUME place = "returned", Complete
             PROVE  /\ \A i \in Positions :
                          i \in WholeItems /\ output[i].kind # "bare" => OnceOrMore(i)
                    /\ {call \in Calls : toolCalls[call].started}
                          = {output[i].index : i \in {j \in WholeItems : IsCall(j)}}
                    /\ reason = WholeReason
  <2>1. WholeItems \subseteq Positions
    BY BackendTypes DEF WholeItems, CodexInv, EventsTypeOK, Backends
  <2> QED BY <2>1 DEF StreamedAsWhole, Complete, OnceOrMore, Kept
<1>1. /\ AnnouncedKnown /\ PartsCounted /\ EndKnown /\ WholesCounted /\ AnswerKnown
      /\ CallsBegun /\ ReasonKnown
  BY DEF AnswerInv
<1>2. /\ EventsTypeOK /\ output \in Outputs /\ backend.announced \subseteq Positions
  BY BackendTypes DEF CodexInv
<1>3. pending = <<>> /\ Len(pending) = 0 /\ backend.terminals > 0
  BY <1>1, EmptySeq DEF EndKnown, AtEnd
<1>4. /\ \A i \in Positions : IsCall(i) => i \in backend.announced
      /\ backend.done \in {{}, Positions}
      /\ backend.full \/ (backend.done # {} /\ \A i \in Positions : Told(i))
  BY <1>1, <1>3 DEF AnswerKnown
<1>5. WholeItems = Positions
  BY <1>4 DEF WholeItems
<1>6. \A i \in Positions : i \in backend.announced <=> IsCall(i)
  BY <1>1, <1>4 DEF AnnouncedKnown
<1>7. ASSUME NEW i \in Positions, output[i].kind # "bare"
      PROVE  OnceOrMore(i)
  <2>1. ~PartAhead(i) /\ ~WholeAhead(i)
    BY <1>3 DEF PartAhead, WholeAhead
  <2>2. /\ forwarded[i].parts \in Nat /\ forwarded[i].wholes \in Nat /\ backend.deltas[i] \in Nat
    BY <1>2, TerminalsAssumption DEF EventsTypeOK, Backends
  <2>3. Kept(i) => forwarded[i].parts = backend.deltas[i]
    BY <1>1, <2>1, <2>2 DEF PartsCounted
  <2>4. i \in streamed <=> Carries(i, "delta") /\ backend.deltas[i] > 0
    BY <1>1 DEF PartsCounted
  <2>5. Due(i) <=> backend.full /\ Id(i, "listed") \notin streamed
    BY <1>3, <1>7 DEF Due, Missing
  <2>6. forwarded[i].wholes = (IF Due(i) THEN 1 ELSE 0)
    BY <1>1, <2>1, <2>2 DEF WholesCounted
  <2>7. ~backend.full => backend.deltas[i] > 0
    BY <1>4, <1>7 DEF Told
  <2>8. 0 \notin streamed
    <3>1. \A j \in Positions : j # 0
      BY <1>2, OutputItems
    <3> QED BY <1>1, <3>1 DEF PartsCounted
  <2>9. backend.deltas[i] = 0 => Due(i)
    BY <2>2, <2>4, <2>5, <2>7, <2>8 DEF Id
  <2>10. Carries(i, "delta") /\ Carries(i, "listed") => (Due(i) <=> backend.deltas[i] = 0)
    BY <2>2, <2>4, <2>5, <2>9 DEF Id
  <2>11. Kept(i) => forwarded[i].parts + forwarded[i].wholes > 0
    BY <2>2, <2>3, <2>6, <2>9
  <2> QED BY <2>3, <2>6, <2>10, <2>11 DEF OnceOrMore
<1>8. {call \in Calls : toolCalls[call].started}
         = {output[i].index : i \in {j \in WholeItems : IsCall(j)}}
  <2>1. \A i \in backend.announced : toolCalls[output[i].index].started
    BY <1>1, <1>3 DEF CallsBegun, Beginning, InHand
  <2>2. \A call \in Calls : toolCalls[call].started => call \in AnnouncedIndexes
    BY <1>1 DEF CallsBegun
  <2>3. \A i \in Positions : output[i].index \in Calls
    BY <1>2, OutputItems
  <2>4. {j \in WholeItems : IsCall(j)} = backend.announced
    BY <1>2, <1>5, <1>6
  <2> QED BY <1>2, <2>1, <2>2, <2>3, <2>4 DEF AnnouncedIndexes
<1>9. reason = WholeReason
  <2>1. reason = FinishReason(backend.status, hasToolUse)
    BY <1>1, <1>3 DEF ReasonKnown, FinishAhead
  <2>2. hasToolUse <=> \E i \in WholeItems : IsCall(i)
    BY <1>1, <1>2, <1>5, <1>6 DEF AnnouncedKnown
  <2> QED BY <2>1, <2>2 DEF FinishReason, WholeReason
<1> QED BY <1>7, <1>8, <1>9

\* Streaming or not, the client gets the same answer, in whatever order upstream
\* sends its items, for every response and any number of deltas: the same calls and
\* the same stop reason; all of each item, whether it comes in deltas or only with
\* the terminal event, but for arguments in deltas without an item_id, which are
\* dropped (stream.go:280-282); and each item once, if its deltas and the terminal
\* event have its id, without which streamedText and streamedArgs cannot tell that
\* it has been streamed (stream.go:186-217, 250-262).
THEOREM StreamedLikeWhole == CodexSpec => []StreamedAsWhole
<1>1. CodexInv /\ AnswerInv /\ [CodexNext]_<<vars, codexVars>> => (CodexInv /\ AnswerInv)'
  BY CodexInvStep, AnswerInvStep
<1> QED BY <1>1, CodexInvInit, AnswerInvInit, AnswerAtTheEnd, PTL DEF CodexSpec
===============================================================================
