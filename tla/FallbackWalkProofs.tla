-------------------------- MODULE FallbackWalkProofs --------------------------
(***************************************************************************)
(* NothingUntried and ServesContract, for every set of requests, lists and *)
(* answers: what one request does with its preference list.                *)
(*                                                                         *)
(* Both rest on one invariant of a request and the calls it has made:      *)
(* Walk.  Each model of the list has a fate or still lies ahead; what the  *)
(* loop walks is the list without the models the filter dropped, in the    *)
(* list's order; the calls made lie behind the position; and a model is    *)
(* jumped only over a call of a sibling.                                   *)
(***************************************************************************)
EXTENDS FallbackProofs

Heads == {"loopUpstream", "loopModel"}
Calling == {"waiting", "counted", "parse"}

Considered(q, s) == q.fate[s] # "untouched"
AllConsidered(q) == \A s \in ElementsOf(q.list) : Considered(q, s)

\* s is still to come, at position from of the usable list or later.
StillListed(q, s, from) == \E j \in from .. Len(q.usable) : q.usable[j] = s

\* No model of the list gets lost between the filter and the end of the loop.
NoneDropped(q) ==
    /\ q.pc \in Filtering =>
          \A i \in 1 .. q.pos - 1 : Considered(q, q.list[i]) \/ StillListed(q, q.list[i], 1)
    /\ q.pc \in Looping =>
          \A s \in ElementsOf(q.list) : Considered(q, s) \/ StillListed(q, s, q.pos)
    /\ q.pc \in Calling => Considered(q, Current(q))
    /\ q.pc = "exhausted" \/ q.reply.kind \in GaveUp => AllConsidered(q)

\* A model jumped over has a sibling among the calls made.
JumpsExplained(q, made) ==
    \A s \in Specs : q.fate[s] = "jumped" => \E c \in ElementsOf(made) : c[1] = s[1]

\* The usable models are models of the list, in its order.
ListKept(q) ==
    /\ q.pc = "idle" => q.list = <<>> /\ q.usable = <<>>
    /\ q.pc # "idle" => q.list \in PreferenceLists
    /\ q.pc \in Filtering =>
          \A a \in 1..Len(q.usable) : \E k \in 1 .. q.pos - 1 : q.usable[a] = q.list[k]
    /\ q.pc \in Looping =>
          \A a \in 1..Len(q.usable) : \E k \in 1..Len(q.list) : q.usable[a] = q.list[k]
    /\ \A a, b \in 1..Len(q.usable), i, j \in 1..Len(q.list) :
          a < b /\ q.usable[a] = q.list[i] /\ q.usable[b] = q.list[j] => i < j

\* The calls made are behind the current position, the last one at it.
CallsMade(q, made) ==
    /\ q.pc \in {"idle"} \cup Filtering => made = <<>>
    /\ q.pc \in Heads =>
          \A c \in 1..Len(made) : \E a \in 1 .. q.pos - 1 : made[c] = q.usable[a]
    /\ q.pc \in Calling =>
          /\ \A c \in 1..Len(made) : \E a \in 1..q.pos : made[c] = q.usable[a]
          /\ made # <<>> /\ made[Len(made)] = Current(q)

\* Nothing is written before the loop is left.
OpenReply(q) ==
    q.pc \notin {"streaming", "done"} => q.reply.kind = "none" /\ q.reply.spec = NoSpec

Walk(q, made) ==
    /\ NoneDropped(q) /\ JumpsExplained(q, made)
    /\ ListKept(q) /\ CallsMade(q, made) /\ OpenReply(q)

\* Every request is on such a walk (handlers.go:622-886, handlers_stream.go:25-295).
WalkInv == \A r \in Requests : Walk(req[r], calls[r])

\* What the client sees of a step from q to n that calls nothing.
SeenAs(q, n) ==
    /\ n.list = q.list
    /\ \/ n.reply.kind = q.reply.kind /\ n.reply.spec = q.reply.spec
       \/ /\ q.pc \in Calling
          /\ n.reply.kind = "served" /\ n.reply.spec = Current(q)
       \/ /\ q.pc \in Calling \cup {"exhausted"}
          /\ n.reply.spec = q.reply.spec
          /\ n.reply.kind \in {"rateLimited", "gatewayError"}
       \/ /\ q.pc \in Calling
          /\ n.reply.spec = q.reply.spec
          /\ n.reply.kind \in {"upstreamError", "conversionError", "aborted"}

\* n is a proper next state of a request at q that has made these calls.
Onward(q, n, made) == Walk(n, made) /\ SeenAs(q, n)

-----------------------------------------------------------------------------
(* The helpers on one request's variables. *)

\* What a list or a walk names is a model.
LEMMA ListedAreSpecs ==
    ASSUME NEW q \in RequestStates
    PROVE  /\ Len(q.list) \in Nat /\ Len(q.usable) \in Nat
           /\ \A i \in 1..Len(q.list) : q.list[i] \in Specs
           /\ \A i \in 1..Len(q.usable) : q.usable[i] \in Specs
           /\ ElementsOf(q.list) \subseteq Specs
  BY LenProperties, ElementOfSeq DEF RequestStates, ElementsOf

\* Any step that stays at its position keeps the walk, if what it says of the
\* list as a whole is true.
LEMMA SamePosition ==
    ASSUME NEW q \in GoodStates, NEW n \in RequestStates, NEW made, Walk(q, made),
           n.list = q.list, n.usable = q.usable, n.pos = q.pos,
           \A s \in Specs : Considered(q, s) => Considered(n, s),
           \A s \in Specs : n.fate[s] = "jumped" => q.fate[s] = "jumped",
           n.pc = "idle" <=> q.pc = "idle",
           n.pc \in Filtering => q.pc \in Filtering,
           n.pc \in Heads => q.pc \in Heads,
           n.pc \in Calling => q.pc \in Calling,
           n.pc = "exhausted" \/ n.reply.kind \in GaveUp => AllConsidered(q),
           OpenReply(n)
    PROVE  Walk(n, made)
  <1>1. /\ Len(q.list) \in Nat /\ Len(q.usable) \in Nat /\ q.pos \in Nat
        /\ \A i \in 1..Len(q.list) : q.list[i] \in Specs
        /\ ElementsOf(q.list) \subseteq Specs
    BY ListedAreSpecs DEF GoodStates, RequestStates
  <1>2. n.pc \in Looping => q.pc \in Looping
    BY DEF Looping, Heads, Calling
  <1>3. Current(n) = Current(q)
    BY DEF Current
  <1>4. NoneDropped(n)
    <2>1. ASSUME n.pc \in Filtering, NEW i \in 1 .. n.pos - 1
          PROVE  Considered(n, n.list[i]) \/ StillListed(n, n.list[i], 1)
      <3>1. Considered(q, q.list[i]) \/ StillListed(q, q.list[i], 1)
        BY <2>1 DEF Walk, NoneDropped
      <3>2. i \in 1..Len(q.list)
        BY <1>1, <2>1 DEF GoodStates, Placed
      <3>3. QED
        BY <1>1, <3>1, <3>2 DEF StillListed
    <2>2. ASSUME n.pc \in Looping, NEW s \in ElementsOf(n.list)
          PROVE  Considered(n, s) \/ StillListed(n, s, n.pos)
      <3>1. Considered(q, s) \/ StillListed(q, s, q.pos)
        BY <1>2, <2>2 DEF Walk, NoneDropped
      <3>2. QED
        BY <1>1, <2>2, <3>1 DEF StillListed
    <2>3. n.pc \in Calling => Considered(n, Current(n))
      <3>1. q.pc \in Calling => Current(q) \in Specs
        BY CurrentIsSpec DEF Calling, Looping
      <3>2. QED
        BY <1>3, <3>1 DEF Walk, NoneDropped
    <2>4. n.pc = "exhausted" \/ n.reply.kind \in GaveUp => AllConsidered(n)
      BY <1>1 DEF AllConsidered
    <2>5. QED
      BY <2>1, <2>2, <2>3, <2>4 DEF NoneDropped
  <1>5. JumpsExplained(n, made)
    BY DEF Walk, JumpsExplained
  <1>6. ListKept(n)
    BY <1>2 DEF Walk, ListKept
  <1>7. CallsMade(n, made)
    BY <1>3 DEF Walk, CallsMade
  <1>8. QED
    BY <1>4, <1>5, <1>6, <1>7 DEF Walk

\* Noting what became of a model.
LEMMA MarkWalks ==
    ASSUME NEW q \in GoodStates, NEW made, Walk(q, made), NEW spec \in Specs,
           NEW fate \in {"disabled", "noProvider", "called"}
    PROVE  LET n == Mark(q, spec, fate) IN
           /\ n \in GoodStates /\ Walk(n, made) /\ Considered(n, spec)
           /\ n.pc = q.pc /\ n.pos = q.pos /\ n.list = q.list /\ n.usable = q.usable
           /\ n.reply = q.reply
  <1> DEFINE n == Mark(q, spec, fate)
  <1>0. fate \in Fates
    BY DEF Fates
  <1>1. n \in GoodStates /\ n.pc = q.pc
    BY <1>0, MarkGood
  <1>2. n.list = q.list /\ n.usable = q.usable /\ n.pos = q.pos /\ n.reply = q.reply
    BY DEF Mark, GoodStates, RequestStates
  <1>3. n.fate[spec] = fate /\ \A s \in Specs : s # spec => n.fate[s] = q.fate[s]
    BY DEF Mark, GoodStates, RequestStates
  <1>4. OpenReply(n)
    BY <1>1, <1>2 DEF Walk, OpenReply
  <1>5. n.pc = "exhausted" \/ n.reply.kind \in GaveUp => AllConsidered(q)
    BY <1>1, <1>2 DEF Walk, NoneDropped
  <1>6. /\ \A s \in Specs : Considered(q, s) => Considered(n, s)
        /\ \A s \in Specs : n.fate[s] = "jumped" => q.fate[s] = "jumped"
        /\ Considered(n, spec)
    BY <1>3 DEF Considered
  <1>7. Walk(n, made)
    <2> HIDE DEF n
    <2> QED
      BY <1>1, <1>2, <1>4, <1>5, <1>6, SamePosition DEF GoodStates
  <1>8. QED
    BY <1>1, <1>2, <1>6, <1>7

\* At the last model, once that is considered, all are.
LEMMA LastConsidered ==
    ASSUME NEW q \in GoodStates, NEW made, Walk(q, made), q.pc \in Looping, IsLast(q),
           Considered(q, Current(q))
    PROVE  AllConsidered(q)
  <1> SUFFICES ASSUME NEW s \in ElementsOf(q.list)
               PROVE  Considered(q, s)
    BY DEF AllConsidered
  <1>1. Considered(q, s) \/ StillListed(q, s, q.pos)
    BY DEF Walk, NoneDropped
  <1>2. q.pos \in Nat /\ q.pos = Len(q.usable)
    BY DEF GoodStates, RequestStates, IsLast
  <1>3. QED
    BY <1>1, <1>2 DEF StillListed, Current

\* "continue" leaves a model that has been considered.
LEMMA ContinueWalks ==
    ASSUME NEW q \in GoodStates, NEW made, Walk(q, made), q.pc \in Looping,
           Considered(q, Current(q))
    PROVE  Onward(q, Continue(q), made)
  <1> DEFINE n == Continue(q)
  <1>1. /\ q.pos \in Nat /\ Len(q.usable) \in Nat /\ q.pos \in 1..Len(q.usable)
        /\ \A i \in 1..Len(q.list) : q.list[i] \in Specs
        /\ ElementsOf(q.list) \subseteq Specs
    BY ListedAreSpecs DEF GoodStates, RequestStates, Placed
  <1>2. /\ n.list = q.list /\ n.usable = q.usable /\ n.reply = q.reply /\ n.fate = q.fate
        /\ n.pos = q.pos + 1
        /\ n.pc = IF IsLast(q) THEN "exhausted" ELSE "loopUpstream"
    BY DEF Continue, GoodStates, RequestStates
  <1>3. /\ q.pc \notin Filtering \cup {"idle", "streaming", "done", "exhausted"}
        /\ n.pc \notin Filtering \cup Calling \cup {"idle", "streaming", "done"}
    BY <1>2 DEF Looping, Filtering, Calling
  <1> HIDE DEF n
  <1>4. \A s \in Specs : Considered(n, s) <=> Considered(q, s)
    BY <1>2 DEF Considered
  <1>5. NoneDropped(n)
    <2>1. n.pc = "exhausted" => AllConsidered(n)
      BY <1>2, <1>4, <1>1, LastConsidered DEF AllConsidered
    <2>2. n.reply.kind \in GaveUp => AllConsidered(n)
      BY <1>1, <1>2, <1>4 DEF Walk, NoneDropped, AllConsidered
    <2>3. ASSUME NEW s \in ElementsOf(n.list)
          PROVE  Considered(n, s) \/ StillListed(n, s, n.pos)
      <3>1. s \in Specs /\ s \in ElementsOf(q.list)
        BY <1>1, <1>2
      <3>2. Considered(q, s) \/ StillListed(q, s, q.pos)
        BY <3>1 DEF Walk, NoneDropped
      <3>3. CASE Considered(q, s)
        BY <1>4, <3>1, <3>3
      <3>4. CASE StillListed(q, s, q.pos)
        <4>1. PICK j \in q.pos .. Len(q.usable) : q.usable[j] = s
          BY <3>4 DEF StillListed
        <4>2. CASE j = q.pos
          BY <1>4, <3>1, <4>1, <4>2 DEF Current
        <4>3. CASE j # q.pos
          BY <1>1, <1>2, <4>1, <4>3 DEF StillListed
        <4>4. QED
          BY <4>2, <4>3
      <3>5. QED
        BY <3>2, <3>3, <3>4
    <2>4. QED
      BY <1>3, <2>1, <2>2, <2>3 DEF NoneDropped
  <1>6. JumpsExplained(n, made)
    BY <1>2 DEF Walk, JumpsExplained
  <1>7. ListKept(n)
    BY <1>2, <1>3 DEF Walk, ListKept
  <1>8. CallsMade(n, made)
    <2>1. ASSUME NEW c \in 1..Len(made)
          PROVE  \E a \in 1 .. n.pos - 1 : made[c] = n.usable[a]
      <3>1. \E a \in 1..q.pos : made[c] = q.usable[a]
        <4>1. CASE q.pc \in Heads
          <5>1. PICK a \in 1 .. q.pos - 1 : made[c] = q.usable[a]
            BY <4>1 DEF Walk, CallsMade
          <5>2. QED
            BY <1>1, <5>1
        <4>2. CASE q.pc \in Calling
          BY <4>2 DEF Walk, CallsMade
        <4>3. QED
          BY <4>1, <4>2 DEF Looping, Heads, Calling
      <3>2. QED
        BY <1>1, <1>2, <3>1
    <2>2. QED
      BY <1>3, <2>1 DEF CallsMade
  <1>9. OpenReply(n)
    BY <1>2, <1>3 DEF Walk, OpenReply
  <1>10. QED
    BY <1>2, <1>5, <1>6, <1>7, <1>8, <1>9 DEF Onward, SeenAs, Walk, n

\* An answer, or a place that keeps the position.
LEMMA StaysWalks ==
    ASSUME NEW q \in GoodStates, NEW n \in GoodStates, NEW made, Walk(q, made),
           n.list = q.list, n.usable = q.usable, n.pos = q.pos, n.fate = q.fate,
           q.pc # "idle", n.pc \in Calling => q.pc \in Calling,
           \/ n.pc \in {"counted", "parse"} /\ n.reply = q.reply
           \/ n.pc \in {"streaming", "done"},
           SeenAs(q, n), n.reply.kind \in GaveUp => AllConsidered(q)
    PROVE  Onward(q, n, made)
  <1>1. \A s \in Specs : n.fate[s] = q.fate[s]
    OBVIOUS
  <1>2. n.pc \notin {"idle", "exhausted"} \cup Filtering \cup Heads
    BY DEF Filtering, Heads
  <1>3. q.pc \in Calling => q.pc \notin {"streaming", "done"}
    BY DEF Calling
  <1>4. OpenReply(n)
    BY <1>3 DEF Walk, OpenReply, Calling
  <1>5. Walk(n, made)
    BY <1>1, <1>2, <1>4, SamePosition DEF GoodStates, Considered
  <1>6. QED
    BY <1>5 DEF Onward

\* A refusal that ends the loop.
LEMMA RespondWalks ==
    ASSUME NEW q \in GoodStates, NEW made, Walk(q, made),
           q.pc \in Calling \cup {"exhausted"},
           NEW kind \in {"rateLimited", "gatewayError", "upstreamError", "conversionError",
                         "aborted"},
           kind \in GaveUp => AllConsidered(q),
           q.pc = "exhausted" => kind \in {"rateLimited", "gatewayError"}
    PROVE  Onward(q, Respond(q, kind), made)
  <1> DEFINE n == Respond(q, kind)
  <1>1. n \in GoodStates
    <2>1. kind \in ReplyKinds
      BY DEF ReplyKinds
    <2>2. QED
      BY <2>1, RespondGood DEF GoodStates, Settled
  <1>2. /\ n.list = q.list /\ n.usable = q.usable /\ n.pos = q.pos /\ n.fate = q.fate
        /\ n.pc = "done" /\ n.reply.kind = kind /\ n.reply.spec = q.reply.spec
    BY DEF Respond, GoodStates, RequestStates, Replies
  <1>3. q.pc # "idle"
    BY DEF Calling
  <1> HIDE DEF n
  <1>4. SeenAs(q, n)
    BY <1>2 DEF SeenAs
  <1>5. QED
    BY <1>1, <1>2, <1>3, <1>4, StaysWalks DEF Calling, n

\* The 429 answer after the last model.
LEMMA RespondRateLimitedWalks ==
    ASSUME NEW q \in GoodStates, NEW made, Walk(q, made), q.pc \in Calling, AllConsidered(q)
    PROVE  Onward(q, RespondRateLimited(q), made)
  <1> DEFINE n == RespondRateLimited(q)
  <1>1. n \in GoodStates
    BY RespondRateLimitedGood DEF Settled
  <1>2. /\ n.list = q.list /\ n.usable = q.usable /\ n.pos = q.pos /\ n.fate = q.fate
        /\ n.pc = "done" /\ n.reply.kind = "rateLimited" /\ n.reply.spec = q.reply.spec
    BY DEF RespondRateLimited, GoodStates, RequestStates, Replies
  <1>3. q.pc # "idle"
    BY DEF Calling
  <1> HIDE DEF n
  <1>4. SeenAs(q, n)
    BY <1>2 DEF SeenAs
  <1>5. QED
    BY <1>1, <1>2, <1>3, <1>4, StaysWalks DEF Calling, n

\* A 200 is the answer of the model called last.
LEMMA ServeWalks ==
    ASSUME NEW q \in GoodStates, NEW made, Walk(q, made), q.pc \in Calling,
           NEW place \in {"streaming", "done"}
    PROVE  Onward(q, Serve(q, place), made)
  <1> DEFINE n == Serve(q, place)
  <1>1. n \in GoodStates
    BY ServeGood DEF Settled, Calling, Looping
  <1>2. /\ n.list = q.list /\ n.usable = q.usable /\ n.pos = q.pos /\ n.fate = q.fate
        /\ n.pc = place /\ n.reply.kind = "served" /\ n.reply.spec = Current(q)
    BY DEF Serve, GoodStates, RequestStates, Replies
  <1>3. q.pc # "idle"
    BY DEF Calling
  <1> HIDE DEF n
  <1>4. SeenAs(q, n)
    BY <1>2 DEF SeenAs
  <1>5. QED
    BY <1>1, <1>2, <1>3, <1>4, StaysWalks DEF Calling, GaveUp, n

\* A place of the loop, or the end of a stream.
LEMMA GotoWalks ==
    ASSUME NEW q \in GoodStates, NEW made, Walk(q, made), NEW place,
           \/ q.pc = "waiting" /\ place \in {"counted", "parse"}
           \/ q.pc = "streaming" /\ place = "done"
    PROVE  Onward(q, Goto(q, place), made)
  <1> DEFINE n == Goto(q, place)
  <1>1. n \in GoodStates
    BY DEF Goto, GoodStates, RequestStates, Places, Placed, Filtering, Looping
  <1>2. /\ n.list = q.list /\ n.usable = q.usable /\ n.pos = q.pos /\ n.fate = q.fate
        /\ n.pc = place /\ n.reply = q.reply
    BY DEF Goto, GoodStates, RequestStates
  <1>3. q.pc # "idle" /\ (place \in Calling => q.pc \in Calling)
    BY DEF Calling
  <1>4. q.reply.kind \in GaveUp => AllConsidered(q)
    BY DEF Walk, NoneDropped
  <1> HIDE DEF n
  <1>5. SeenAs(q, n)
    BY <1>2 DEF SeenAs
  <1>6. QED
    BY <1>1, <1>2, <1>3, <1>4, <1>5, StaysWalks DEF n

\* The two ways out of an error branch.
LEMMA ContinueOrWalks ==
    ASSUME NEW q \in GoodStates, NEW made, Walk(q, made), q.pc \in Calling,
           NEW response, AllConsidered(q) => Onward(q, response, made)
    PROVE  Onward(q, ContinueOr(q, response), made)
  <1>1. q.pc \in Looping /\ Considered(q, Current(q))
    BY DEF Calling, Looping, Walk, NoneDropped
  <1>2. CASE IsLast(q)
    BY <1>1, <1>2, LastConsidered DEF ContinueOr
  <1>3. CASE ~IsLast(q)
    BY <1>1, <1>3, ContinueWalks DEF ContinueOr
  <1>4. QED
    BY <1>2, <1>3

\* A collected Retry-After leads nowhere by itself.
LEMMA RetryAfterWalks ==
    ASSUME NEW q \in GoodStates, NEW made, Walk(q, made), q.pc \in Calling,
           NEW seconds \in RetryAfters \cup {NoRetryAfter}
    PROVE  LET w == WithRetryAfter(q, seconds) IN
           /\ w \in GoodStates /\ Walk(w, made) /\ w.pc = q.pc
           /\ \A n : Onward(w, n, made) => Onward(q, n, made)
  <1> DEFINE w == WithRetryAfter(q, seconds)
  <1>1. w \in GoodStates /\ w.pc = q.pc
    BY RetryAfterGood
  <1>2. /\ w.list = q.list /\ w.usable = q.usable /\ w.pos = q.pos /\ w.fate = q.fate
        /\ w.reply = q.reply
    BY DEF WithRetryAfter, GoodStates, RequestStates
  <1> HIDE DEF w
  <1>3. OpenReply(w)
    BY <1>1, <1>2 DEF Walk, OpenReply
  <1>4. Walk(w, made)
    <2>1. w.pc = "exhausted" \/ w.reply.kind \in GaveUp => AllConsidered(q)
      BY <1>1, <1>2 DEF Walk, NoneDropped
    <2>2. QED
      BY <1>1, <1>2, <1>3, <2>1, SamePosition DEF GoodStates, Considered
  <1>5. \A n : SeenAs(w, n) => SeenAs(q, n)
    BY <1>1, <1>2 DEF SeenAs, Current
  <1>6. QED
    BY <1>1, <1>4, <1>5 DEF Onward, w

-----------------------------------------------------------------------------
(* The jump of a conversion error. *)

\* What the jump passes over has a call of the same upstream to show.
LEMMA JumpEffect ==
    ASSUME NEW q \in GoodStates, NEW made, Walk(q, made), q.pc \in Calling,
           made \in Seq(Specs), NEW next \in q.pos + 1 .. Len(q.usable) + 1,
           \A j \in q.pos + 1 .. next - 1 : j \notin OtherUpstreamAhead(q)
    PROVE  LET n == JumpTo(q, next) IN
           /\ n \in RequestStates
           /\ n.list = q.list /\ n.usable = q.usable /\ n.reply = q.reply
           /\ n.pos = next /\ n.pc = "loopUpstream"
           /\ JumpsExplained(n, made)
           /\ \A s \in ElementsOf(n.list) : Considered(n, s) \/ StillListed(n, s, next)
  <1> DEFINE n == JumpTo(q, next)
             passed == q.pos + 1 .. next - 1
  <1>1. /\ q \in RequestStates /\ q.pos \in Nat /\ Len(q.usable) \in Nat
        /\ q.pos \in 1..Len(q.usable)
        /\ \A i \in 1..Len(q.usable) : q.usable[i] \in Specs
        /\ ElementsOf(q.list) \subseteq Specs
    BY ListedAreSpecs DEF GoodStates, RequestStates, Placed, Calling, Looping
  <1>2. next \in Nat /\ \A j \in passed : j \in 1..Len(q.usable) /\ j \in q.pos + 1 .. Len(q.usable)
    BY <1>1
  <1>3. /\ n \in RequestStates
        /\ n.list = q.list /\ n.usable = q.usable /\ n.reply = q.reply
        /\ n.pos = next /\ n.pc = "loopUpstream"
    BY <1>1, <1>2 DEF JumpTo, RequestStates, Places, Fates
  <1>4. \A s \in Specs : n.fate[s] = IF \E j \in passed : q.usable[j] = s THEN "jumped"
                                                                         ELSE q.fate[s]
    BY <1>1 DEF JumpTo, RequestStates
  <1> HIDE DEF n
  <1>5. Current(q) \in ElementsOf(made)
    <2>1. made # <<>> /\ made[Len(made)] = Current(q)
      BY DEF Walk, CallsMade
    <2>2. Len(made) \in 1..Len(made)
      BY <2>1, EmptySeq, LenProperties
    <2>3. QED
      BY <2>1, <2>2 DEF ElementsOf
  <1>6. \A j \in passed : q.usable[j][1] = Current(q)[1]
    BY <1>1, <1>2 DEF OtherUpstreamAhead
  <1>7. JumpsExplained(n, made)
    <2> SUFFICES ASSUME NEW s \in Specs, n.fate[s] = "jumped"
                 PROVE  \E c \in ElementsOf(made) : c[1] = s[1]
      BY DEF JumpsExplained
    <2>1. CASE \E j \in passed : q.usable[j] = s
      BY <1>5, <1>6, <2>1
    <2>2. CASE ~\E j \in passed : q.usable[j] = s
      BY <1>4, <2>2 DEF Walk, JumpsExplained
    <2>3. QED
      BY <2>1, <2>2
  <1>8. ASSUME NEW s \in ElementsOf(n.list)
        PROVE  Considered(n, s) \/ StillListed(n, s, next)
    <2>1. s \in Specs /\ s \in ElementsOf(q.list)
      BY <1>1, <1>3
    <2>2. CASE Considered(q, s)
      BY <1>4, <2>1, <2>2 DEF Considered
    <2>3. CASE ~Considered(q, s)
      <3>1. Considered(q, Current(q)) /\ StillListed(q, s, q.pos)
        BY <2>1, <2>3 DEF Walk, NoneDropped, Calling, Looping
      <3>2. PICK j \in q.pos .. Len(q.usable) : q.usable[j] = s
        BY <3>1 DEF StillListed
      <3>3. j # q.pos
        BY <2>3, <3>1, <3>2 DEF Current
      <3>4. CASE j \in passed
        BY <1>4, <2>1, <3>2, <3>4 DEF Considered
      <3>5. CASE j \notin passed
        <4>1. j \in next .. Len(q.usable)
          BY <1>1, <1>2, <3>2, <3>3, <3>5
        <4>2. QED
          BY <1>3, <3>2, <4>1 DEF StillListed
      <3>6. QED
        BY <3>4, <3>5
    <2>4. QED
      BY <2>2, <2>3
  <1>9. QED
    BY <1>3, <1>7, <1>8 DEF n

\* To the first model of another upstream, or to the answer if there is none.
LEMMA AfterInvalidWalks ==
    ASSUME NEW q \in GoodStates, NEW made \in Seq(Specs), Walk(q, made), q.pc \in Calling,
           NEW n \in AfterInvalid(q)
    PROVE  Onward(q, n, made)
  <1> DEFINE last == Len(q.usable)
             ahead == OtherUpstreamAhead(q)
  <1>1. /\ q.pos \in Nat /\ last \in Nat /\ q.pos \in 1..last
        /\ q.pc # "idle" /\ q.pc \in Looping
    BY ListedAreSpecs DEF GoodStates, RequestStates, Placed, Calling, Looping
  <1>2. q.list \in PreferenceLists
    BY <1>1 DEF Walk, ListKept
  <1>3. q.reply.kind = "none" /\ q.reply.spec = NoSpec
    BY DEF Walk, OpenReply, Calling
  <1>4. CASE ahead = {}
    <2> DEFINE j == JumpTo(q, last + 1)
    <2>1. last + 1 \in q.pos + 1 .. Len(q.usable) + 1
      BY <1>1
    <2>2. \A i \in q.pos + 1 .. (last + 1) - 1 : i \notin OtherUpstreamAhead(q)
      BY <1>4
    <2>3. /\ j \in RequestStates
          /\ j.list = q.list /\ j.usable = q.usable /\ j.reply = q.reply
          /\ JumpsExplained(j, made)
          /\ \A s \in ElementsOf(j.list) : Considered(j, s) \/ StillListed(j, s, last + 1)
      BY <2>1, <2>2, JumpEffect
    <2>4. n = Respond(j, "conversionError")
      BY <1>4 DEF AfterInvalid
    <2> HIDE DEF j
    <2>5. /\ n.list = j.list /\ n.usable = j.usable /\ n.fate = j.fate
          /\ n.pc = "done" /\ n.reply.kind = "conversionError" /\ n.reply.spec = j.reply.spec
      BY <2>3, <2>4 DEF Respond, RequestStates, Replies
    <2>6. AllConsidered(n)
      <3>1. \A s : ~StillListed(j, s, last + 1)
        BY <1>1, <2>3 DEF StillListed
      <3>2. QED
        BY <2>3, <2>5, <3>1 DEF AllConsidered, Considered
    <2>7. NoneDropped(n)
      BY <2>5, <2>6 DEF NoneDropped, Filtering, Looping, Calling
    <2>8. JumpsExplained(n, made)
      BY <2>3, <2>5 DEF JumpsExplained
    <2>9. ListKept(n)
      BY <1>2, <2>3, <2>5 DEF Walk, ListKept, Filtering, Looping
    <2>10. CallsMade(n, made) /\ OpenReply(n)
      BY <2>5 DEF CallsMade, OpenReply, Filtering, Heads, Calling
    <2>11. SeenAs(q, n)
      BY <2>3, <2>5 DEF SeenAs
    <2>12. QED
      BY <2>7, <2>8, <2>9, <2>10, <2>11 DEF Onward, Walk
  <1>5. CASE ahead # {}
    <2>1. PICK next \in ahead : (\A k \in ahead : next <= k) /\ n = JumpTo(q, next)
      BY <1>5 DEF AfterInvalid
    <2>2. next \in q.pos + 1 .. last /\ next \in Nat
      BY <1>1, <2>1 DEF OtherUpstreamAhead
    <2>3. next \in q.pos + 1 .. Len(q.usable) + 1
      BY <1>1, <2>2
    <2>4. \A i \in q.pos + 1 .. next - 1 : i \notin OtherUpstreamAhead(q)
      BY <1>1, <2>1, <2>2
    <2>5. /\ n.list = q.list /\ n.usable = q.usable /\ n.reply = q.reply
          /\ n.pos = next /\ n.pc = "loopUpstream"
          /\ JumpsExplained(n, made)
          /\ \A s \in ElementsOf(n.list) : Considered(n, s) \/ StillListed(n, s, next)
      BY <2>1, <2>3, <2>4, JumpEffect
    <2>6. NoneDropped(n)
      BY <1>3, <2>5 DEF NoneDropped, Filtering, Calling, GaveUp
    <2>7. ListKept(n)
      BY <1>1, <1>2, <2>5 DEF Walk, ListKept, Filtering
    <2>8. CallsMade(n, made)
      <3>1. ASSUME NEW c \in 1..Len(made)
            PROVE  \E a \in 1 .. n.pos - 1 : made[c] = n.usable[a]
        <4>1. PICK a \in 1..q.pos : made[c] = q.usable[a]
          BY DEF Walk, CallsMade
        <4>2. QED
          BY <1>1, <2>2, <2>5, <4>1
      <3>2. QED
        BY <2>5, <3>1 DEF CallsMade, Filtering, Calling
    <2>9. OpenReply(n) /\ SeenAs(q, n)
      BY <1>3, <2>5 DEF OpenReply, SeenAs
    <2>10. QED
      BY <2>5, <2>6, <2>7, <2>8, <2>9 DEF Onward, Walk
  <1>6. QED
    BY <1>4, <1>5

-----------------------------------------------------------------------------
(* The filter. *)

\* One round of the filter ends: spec has been dropped with a fate or kept.
LEMMA NextListedWalks ==
    ASSUME NEW q \in RequestStates, q.pos \in 1..Len(q.list), q.list \in PreferenceLists,
           \A i \in 1..q.pos : Considered(q, q.list[i]) \/ StillListed(q, q.list[i], 1),
           \A a \in 1..Len(q.usable) : \E k \in 1..q.pos : q.usable[a] = q.list[k],
           \A a, b \in 1..Len(q.usable), i, j \in 1..Len(q.list) :
              a < b /\ q.usable[a] = q.list[i] /\ q.usable[b] = q.list[j] => i < j,
           JumpsExplained(q, <<>>), q.reply.kind = "none" /\ q.reply.spec = NoSpec
    PROVE  Walk(NextListed(q), <<>>) /\ SeenAs(q, NextListed(q))
  <1> DEFINE n == NextListed(q)
  <1>1. q.pos \in Nat /\ Len(q.list) \in Nat /\ Len(q.usable) \in Nat /\ Len(<<>>) = 0
    BY LenProperties, EmptySeq DEF RequestStates
  <1>2. n.list = q.list /\ n.usable = q.usable /\ n.fate = q.fate /\ n.reply = q.reply
    BY DEF NextListed, Goto, RequestStates
  <1>3. JumpsExplained(n, <<>>) /\ SeenAs(q, n) /\ OpenReply(n)
    BY <1>2 DEF JumpsExplained, SeenAs, OpenReply
  <1>4. CASE q.pos < Len(q.list)
    <2>1. n.pc = "filterUpstream" /\ n.pos = q.pos + 1
      BY <1>4 DEF NextListed, RequestStates
    <2> HIDE DEF n
    <2>2. 1 .. n.pos - 1 = 1..q.pos
      BY <1>1, <2>1
    <2>3. NoneDropped(n)
      BY <1>2, <2>1, <2>2
         DEF NoneDropped, Looping, Calling, GaveUp, Considered, StillListed
    <2>4. ListKept(n)
      BY <1>2, <2>1, <2>2 DEF ListKept, Looping
    <2>5. CallsMade(n, <<>>)
      BY <2>1 DEF CallsMade, Heads, Calling
    <2>6. QED
      BY <1>3, <2>3, <2>4, <2>5 DEF Walk, n
  <1>5. CASE ~(q.pos < Len(q.list))
    <2>1. q.pos = Len(q.list)
      BY <1>1, <1>5
    <2>2. \A s \in ElementsOf(q.list) : Considered(q, s) \/ StillListed(q, s, 1)
      BY <2>1 DEF ElementsOf
    <2>3. \/ n.pc = "exhausted" /\ q.usable = <<>>
          \/ n.pc = "loopUpstream" /\ n.pos = 1
      BY <1>5 DEF NextListed, Goto, RequestStates
    <2> HIDE DEF n
    <2>4. NoneDropped(n)
      <3>1. n.pc = "exhausted" => AllConsidered(n)
        <4>1. q.usable = <<>> => \A s : ~StillListed(q, s, 1)
          BY <1>1 DEF StillListed
        <4>2. QED
          BY <1>2, <2>2, <2>3, <4>1 DEF AllConsidered, Considered
      <3>2. \A s \in ElementsOf(n.list) :
               n.pc = "loopUpstream" => Considered(n, s) \/ StillListed(n, s, n.pos)
        BY <1>2, <2>2, <2>3 DEF Considered, StillListed
      <3>3. QED
        BY <1>2, <2>3, <3>1, <3>2 DEF NoneDropped, Filtering, Looping, Calling, GaveUp
    <2>5. ListKept(n)
      BY <1>2, <2>1, <2>3 DEF ListKept, Filtering
    <2>6. CallsMade(n, <<>>)
      BY <1>1, <2>3 DEF CallsMade, Heads, Calling
    <2>7. QED
      BY <1>3, <2>4, <2>5, <2>6 DEF Walk, n
  <1>6. QED
    BY <1>4, <1>5

\* The filter found the model, or its whole upstream, disabled.
LEMMA DropWalks ==
    ASSUME NEW q \in GoodStates, q.pc \in Filtering, Walk(q, <<>>)
    PROVE  LET n == NextListed(Mark(q, q.list[q.pos], "disabled")) IN
           Walk(n, <<>>) /\ SeenAs(q, n)
  <1> DEFINE spec == q.list[q.pos]
             m == Mark(q, spec, "disabled")
  <1>1. q.pos \in Nat /\ q.pos \in 1..Len(q.list) /\ Len(q.list) \in Nat /\ spec \in Specs
    BY ListedAreSpecs DEF GoodStates, RequestStates, Placed
  <1>2. /\ m \in GoodStates /\ Walk(m, <<>>) /\ Considered(m, spec)
        /\ m.pc = q.pc /\ m.pos = q.pos /\ m.list = q.list /\ m.usable = q.usable
        /\ m.reply = q.reply
    BY <1>1, MarkWalks
  <1> HIDE DEF m
  <1>3. \A i \in 1..m.pos : Considered(m, m.list[i]) \/ StillListed(m, m.list[i], 1)
    <2> SUFFICES ASSUME NEW i \in 1..m.pos
                 PROVE  Considered(m, m.list[i]) \/ StillListed(m, m.list[i], 1)
      OBVIOUS
    <2>1. CASE i = q.pos
      BY <1>2, <2>1
    <2>2. CASE i # q.pos
      <3>1. i \in 1 .. m.pos - 1
        BY <1>1, <1>2, <2>2
      <3>2. QED
        BY <1>2, <3>1 DEF Walk, NoneDropped
    <2>3. QED
      BY <2>1, <2>2
  <1>4. \A a \in 1..Len(m.usable) : \E k \in 1..m.pos : m.usable[a] = m.list[k]
    <2> SUFFICES ASSUME NEW a \in 1..Len(m.usable)
                 PROVE  \E k \in 1..m.pos : m.usable[a] = m.list[k]
      OBVIOUS
    <2>1. PICK k \in 1 .. m.pos - 1 : m.usable[a] = m.list[k]
      BY <1>2 DEF Walk, ListKept
    <2>2. QED
      BY <1>1, <1>2, <2>1
  <1>5. /\ m.list \in PreferenceLists
        /\ \A a, b \in 1..Len(m.usable), i, j \in 1..Len(m.list) :
              a < b /\ m.usable[a] = m.list[i] /\ m.usable[b] = m.list[j] => i < j
    BY <1>2 DEF Walk, ListKept, Filtering
  <1>6. JumpsExplained(m, <<>>) /\ m.reply.kind = "none" /\ m.reply.spec = NoSpec
    BY <1>2 DEF Walk, OpenReply, Filtering
  <1>7. Walk(NextListed(m), <<>>) /\ SeenAs(m, NextListed(m))
    BY <1>1, <1>2, <1>3, <1>4, <1>5, <1>6, NextListedWalks DEF GoodStates
  <1>8. SeenAs(q, NextListed(m))
    BY <1>2, <1>6, <1>7 DEF SeenAs, Calling, Filtering
  <1>9. QED
    BY <1>7, <1>8 DEF m

\* The filter keeps the model.
LEMMA KeepWalks ==
    ASSUME NEW q \in GoodStates, q.pc \in Filtering, Walk(q, <<>>)
    PROVE  LET n == NextListed([q EXCEPT !.usable = Append(q.usable, q.list[q.pos])]) IN
           Walk(n, <<>>) /\ SeenAs(q, n)
  <1> DEFINE spec == q.list[q.pos]
             kept == Append(q.usable, spec)
             m == [q EXCEPT !.usable = kept]
             size == Len(q.usable)
  <1>1. /\ q.pos \in Nat /\ q.pos \in 1..Len(q.list) /\ Len(q.list) \in Nat
        /\ spec \in Specs /\ size \in Nat /\ q.usable \in Seq(Specs)
    BY ListedAreSpecs DEF GoodStates, RequestStates, Placed
  <1>2. /\ kept \in Seq(Specs) /\ Len(kept) = size + 1 /\ kept[size + 1] = spec
        /\ \A a \in 1..size : kept[a] = q.usable[a]
    BY <1>1, AppendProperties
  <1>3. q.list \in PreferenceLists
    BY DEF Walk, ListKept, Filtering
  <1> HIDE DEF kept
  <1>4. /\ m \in RequestStates /\ m.pc = q.pc /\ m.pos = q.pos /\ m.list = q.list
        /\ m.usable = kept /\ m.reply = q.reply /\ m.fate = q.fate
    BY <1>2 DEF GoodStates, RequestStates
  <1> HIDE DEF m
  <1>5. \A i \in 1..m.pos : Considered(m, m.list[i]) \/ StillListed(m, m.list[i], 1)
    <2> SUFFICES ASSUME NEW i \in 1..m.pos
                 PROVE  Considered(m, m.list[i]) \/ StillListed(m, m.list[i], 1)
      OBVIOUS
    <2>1. CASE i = q.pos
      <3>1. size + 1 \in 1 .. Len(m.usable)
        BY <1>1, <1>2, <1>4
      <3>2. QED
        BY <1>2, <1>4, <2>1, <3>1 DEF StillListed
    <2>2. CASE i # q.pos
      <3>1. i \in 1 .. q.pos - 1
        BY <1>1, <1>4, <2>2
      <3>2. CASE Considered(q, q.list[i])
        BY <1>4, <3>2 DEF Considered
      <3>3. CASE StillListed(q, q.list[i], 1)
        <4>1. PICK a \in 1..size : q.usable[a] = q.list[i]
          BY <3>3 DEF StillListed
        <4>2. a \in 1 .. Len(m.usable) /\ m.usable[a] = q.list[i]
          BY <1>1, <1>2, <1>4, <4>1
        <4>3. QED
          BY <1>4, <4>2 DEF StillListed
      <3>4. QED
        BY <3>1, <3>2, <3>3 DEF Walk, NoneDropped
    <2>3. QED
      BY <2>1, <2>2
  <1>6. \A a \in 1..size : \E k \in 1 .. q.pos - 1 : q.usable[a] = q.list[k]
    BY DEF Walk, ListKept
  <1>7. \A a \in 1..Len(m.usable) : \E k \in 1..m.pos : m.usable[a] = m.list[k]
    <2> SUFFICES ASSUME NEW a \in 1..Len(m.usable)
                 PROVE  \E k \in 1..m.pos : m.usable[a] = m.list[k]
      OBVIOUS
    <2>1. CASE a = size + 1
      BY <1>1, <1>2, <1>4, <2>1
    <2>2. CASE a # size + 1
      <3>1. a \in 1..size
        BY <1>1, <1>2, <1>4, <2>2
      <3>2. PICK k \in 1 .. q.pos - 1 : q.usable[a] = q.list[k]
        BY <1>6, <3>1
      <3>3. QED
        BY <1>1, <1>2, <1>4, <3>1, <3>2
    <2>3. QED
      BY <2>1, <2>2
  <1>8. ASSUME NEW a \in 1..Len(m.usable), NEW b \in 1..Len(m.usable),
               NEW i \in 1..Len(m.list), NEW j \in 1..Len(m.list),
               a < b, m.usable[a] = m.list[i], m.usable[b] = m.list[j]
        PROVE  i < j
    <2>1. a \in 1..size /\ q.usable[a] = q.list[i]
      BY <1>1, <1>2, <1>4, <1>8
    <2>2. CASE b = size + 1
      <3>1. PICK k \in 1 .. q.pos - 1 : q.usable[a] = q.list[k]
        BY <1>6, <2>1
      <3>2. q.list[i] = q.list[k] /\ q.list[j] = q.list[q.pos]
        BY <1>2, <1>4, <1>8, <2>1, <2>2, <3>1
      <3>3. k \in 1..Len(q.list) /\ k < q.pos
        BY <1>1, <3>1
      <3>4. i = k /\ j = q.pos
        BY <1>1, <1>3, <1>4, <1>8, <3>2, <3>3, ListsAssumption
      <3>5. QED
        BY <3>3, <3>4
    <2>3. CASE b # size + 1
      <3>1. b \in 1..size /\ q.usable[b] = q.list[j]
        BY <1>1, <1>2, <1>4, <1>8, <2>3
      <3>2. QED
        BY <1>4, <1>8, <2>1, <3>1 DEF Walk, ListKept
    <2>4. QED
      BY <2>2, <2>3
  <1>9. /\ JumpsExplained(m, <<>>)
        /\ m.reply.kind = "none" /\ m.reply.spec = NoSpec
    BY <1>4 DEF Walk, OpenReply, Filtering, JumpsExplained
  <1>10. Walk(NextListed(m), <<>>) /\ SeenAs(m, NextListed(m))
    BY <1>1, <1>3, <1>4, <1>5, <1>7, <1>8, <1>9, NextListedWalks
  <1>11. SeenAs(q, NextListed(m))
    BY <1>4, <1>9, <1>10 DEF SeenAs, Calling, Filtering
  <1>12. QED
    BY <1>10, <1>11 DEF m, kept

\* From the check of the upstream on to the check of the model.
LEMMA NextCheckWalks ==
    ASSUME NEW q \in GoodStates, NEW made, Walk(q, made), NEW place,
           \/ q.pc = "filterUpstream" /\ place = "filterModel"
           \/ q.pc = "loopUpstream" /\ place = "loopModel"
    PROVE  Onward(q, Goto(q, place), made)
  <1> DEFINE n == Goto(q, place)
  <1>1. n \in RequestStates
    BY DEF Goto, GoodStates, RequestStates, Places
  <1>2. /\ n.list = q.list /\ n.usable = q.usable /\ n.pos = q.pos /\ n.fate = q.fate
        /\ n.pc = place /\ n.reply = q.reply
    BY DEF Goto, GoodStates, RequestStates
  <1> HIDE DEF n
  <1>3. OpenReply(n) /\ SeenAs(q, n)
    BY <1>2 DEF Walk, OpenReply, SeenAs
  <1>4. n.pc = "exhausted" \/ n.reply.kind \in GaveUp => AllConsidered(q)
    BY <1>2 DEF Walk, NoneDropped
  <1>5. Walk(n, made)
    BY <1>1, <1>2, <1>3, <1>4, SamePosition DEF Considered, Filtering, Heads, Calling
  <1>6. QED
    BY <1>3, <1>5 DEF Onward, n

\* The head of the loop drops the model.
LEMMA SkipWalks ==
    ASSUME NEW q \in GoodStates, NEW made, Walk(q, made), q.pc \in Heads,
           NEW fate \in {"disabled", "noProvider"}
    PROVE  Onward(q, Continue(Mark(q, Current(q), fate)), made)
  <1> DEFINE m == Mark(q, Current(q), fate)
  <1>1. Current(q) \in Specs /\ q.pc \in Looping
    BY CurrentIsSpec DEF Heads, Looping
  <1>2. /\ m \in GoodStates /\ Walk(m, made) /\ Considered(m, Current(q))
        /\ m.pc = q.pc /\ m.pos = q.pos /\ m.list = q.list /\ m.usable = q.usable
        /\ m.reply = q.reply
    BY <1>1, MarkWalks
  <1> HIDE DEF m
  <1>3. Current(m) = Current(q)
    BY <1>2 DEF Current
  <1>4. Onward(m, Continue(m), made)
    BY <1>1, <1>2, <1>3, ContinueWalks
  <1>5. SeenAs(q, Continue(m))
    BY <1>2, <1>3, <1>4 DEF Onward, SeenAs
  <1>6. QED
    BY <1>4, <1>5 DEF Onward, m

\* The call is made.
LEMMA CallWalks ==
    ASSUME NEW q \in GoodStates, NEW made \in Seq(Specs), Walk(q, made), q.pc = "loopModel"
    PROVE  LET n == [Mark(q, Current(q), "called") EXCEPT !.pc = "waiting", !.doomed = q.ctxDone]
           IN  Walk(n, Append(made, Current(q))) /\ n.list = q.list /\ n.reply = q.reply
  <1> DEFINE spec == Current(q)
             m == Mark(q, spec, "called")
             n == [m EXCEPT !.pc = "waiting", !.doomed = q.ctxDone]
             more == Append(made, spec)
  <1>1. spec \in Specs /\ q.pos \in Nat /\ q.pos \in 1..Len(q.usable)
    BY CurrentIsSpec DEF GoodStates, RequestStates, Placed, Looping
  <1>2. /\ m \in GoodStates /\ Walk(m, made) /\ Considered(m, spec)
        /\ m.pc = q.pc /\ m.pos = q.pos /\ m.list = q.list /\ m.usable = q.usable
        /\ m.reply = q.reply
    BY <1>1, MarkWalks
  <1>3. /\ Len(made) \in Nat /\ Len(more) = Len(made) + 1 /\ more[Len(more)] = spec
        /\ \A c \in 1..Len(made) : more[c] = made[c]
        /\ more # <<>>
    BY <1>1, AppendProperties, LenProperties, EmptySeq
  <1> HIDE DEF m, more
  <1>4. /\ n.list = q.list /\ n.usable = q.usable /\ n.pos = q.pos /\ n.fate = m.fate
        /\ n.pc = "waiting" /\ n.reply = q.reply
    BY <1>2 DEF GoodStates, RequestStates
  <1> HIDE DEF n
  <1>5. Current(n) = spec
    BY <1>4 DEF Current
  <1>6. NoneDropped(n)
    BY <1>2, <1>4, <1>5
       DEF Walk, NoneDropped, OpenReply, Filtering, Looping, GaveUp, Considered, StillListed
  <1>7. JumpsExplained(n, more)
    <2>1. ElementsOf(made) \subseteq ElementsOf(more)
      BY <1>3 DEF ElementsOf
    <2>2. QED
      BY <1>2, <1>4, <2>1 DEF Walk, JumpsExplained
  <1>8. ListKept(n)
    BY <1>2, <1>4 DEF Walk, ListKept, Filtering, Looping
  <1>9. CallsMade(n, more)
    <2>1. ASSUME NEW c \in 1..Len(more)
          PROVE  \E a \in 1..n.pos : more[c] = n.usable[a]
      <3>1. CASE c = Len(more)
        BY <1>1, <1>3, <1>4, <3>1 DEF Current
      <3>2. CASE c # Len(more)
        <4>1. c \in 1..Len(made)
          BY <1>3, <3>2
        <4>2. PICK a \in 1 .. q.pos - 1 : made[c] = q.usable[a]
          BY <4>1 DEF Walk, CallsMade, Heads
        <4>3. QED
          BY <1>1, <1>3, <1>4, <4>1, <4>2
      <3>3. QED
        BY <3>1, <3>2
    <2>2. QED
      BY <1>3, <1>4, <1>5, <2>1 DEF CallsMade, Filtering, Heads
  <1>10. OpenReply(n)
    BY <1>2, <1>4 DEF Walk, OpenReply
  <1>11. QED
    BY <1>4, <1>6, <1>7, <1>8, <1>9, <1>10 DEF Walk, n, m, more

-----------------------------------------------------------------------------
(* One step of one request. *)

\* The answer to a call, and what follows it, call nothing.
LEMMA AnswerWalks ==
    ASSUME RequestInv, HistoryTypeOK, WalkInv, NEW r \in Requests,
           \/ AnswerStep(r) \/ RateLimitApplied(r) \/ Parsed(r) \/ ParsedFailure(r)
           \/ StreamEnds(r) \/ Exhausted(r)
    PROVE  UNCHANGED calls /\ Onward(req[r], req'[r], calls[r])
  <1> DEFINE q == req[r]
             made == calls[r]
  <1>1. q \in GoodStates /\ made \in Seq(Specs) /\ Walk(q, made)
    BY DEF RequestInv, HistoryTypeOK, WalkInv
  <1>2. UNCHANGED calls
    BY DEF AnswerStep, RateLimitApplied, Parsed, ParsedFailure, StreamEnds, Exhausted,
       CannotEncode, CannotMarshal, TransportError, BodyBreaksOff, RateLimitCounted,
       AccountLimitReached, Overloaded, ModelGone, Rejected, Succeeded, AnsweredPlainly,
       AnsweredGarbage, historyVars
  <1>3. \A n : Step(r, n) => req'[r] = n
    BY DEF Step, RequestInv
  <1> HIDE DEF q, made
  <1> SUFFICES Onward(q, req'[r], made)
    BY <1>2 DEF q, made
  <1>4. CASE Exhausted(r)
    <2>1. q.pc = "exhausted"
      BY <1>4 DEF Exhausted, q
    <2>2. AllConsidered(q)
      BY <1>1, <2>1 DEF Walk, NoneDropped
    <2>3. \E kind \in {"rateLimited", "gatewayError"} : req'[r] = Respond(q, kind)
      BY <1>3, <1>4 DEF Exhausted, q
    <2>4. QED
      BY <1>1, <2>1, <2>2, <2>3, RespondWalks
  <1>5. CASE StreamEnds(r)
    BY <1>1, <1>3, <1>5, GotoWalks DEF StreamEnds, q
  <1>6. CASE \/ AnswerStep(r) \/ RateLimitApplied(r) \/ Parsed(r) \/ ParsedFailure(r)
    <2>1. q.pc \in Calling /\ (AnswerStep(r) => q.pc = "waiting")
      BY <1>6 DEF AnswerStep, RateLimitApplied, Parsed, ParsedFailure, CannotEncode,
         CannotMarshal, TransportError, BodyBreaksOff, RateLimitCounted, AccountLimitReached,
         Overloaded, ModelGone, Rejected, Succeeded, AnsweredPlainly, AnsweredGarbage,
         Receives, Calling, q
    <2>2. q.pc \in Looping /\ Considered(q, Current(q)) /\ q.pc # "exhausted"
      BY <1>1, <2>1 DEF Walk, NoneDropped, Calling, Looping
    <2>3. Onward(q, Continue(q), made)
      BY <1>1, <2>2, ContinueWalks
    <2>4. Onward(q, Respond(q, "aborted"), made)
      BY <1>1, <2>1, <2>2, RespondWalks DEF GaveUp
    <2>5. Onward(q, ContinueOr(q, Respond(q, "upstreamError")), made)
      <3>1. AllConsidered(q) => Onward(q, Respond(q, "upstreamError"), made)
        BY <1>1, <2>1, <2>2, RespondWalks
      <3>2. QED
        BY <1>1, <2>1, <3>1, ContinueOrWalks
    <2>6. Onward(q, Serve(q, "done"), made) /\ Onward(q, Serve(q, "streaming"), made)
      BY <1>1, <2>1, ServeWalks
    <2>7. CASE CannotEncode(r)
      BY <1>1, <1>3, <2>1, <2>7, AfterInvalidWalks DEF CannotEncode, q
    <2>8. CASE CannotMarshal(r) \/ Overloaded(r) \/ ModelGone(r) \/ Rejected(r)
      BY <1>3, <2>4, <2>5, <2>8 DEF CannotMarshal, Overloaded, ModelGone, Rejected, q
    <2>9. CASE TransportError(r) \/ BodyBreaksOff(r) \/ AnsweredGarbage(r) \/ ParsedFailure(r)
      BY <1>3, <2>3, <2>4, <2>9
         DEF TransportError, BodyBreaksOff, AnsweredGarbage, ParsedFailure, q
    <2>10. CASE Parsed(r) \/ AnsweredPlainly(r)
      BY <1>3, <2>3, <2>4, <2>6, <2>10 DEF Parsed, AnsweredPlainly, q
    <2>11. CASE Succeeded(r)
      <3>1. Onward(q, Goto(q, "parse"), made)
        BY <1>1, <2>1, <2>11, GotoWalks DEF AnswerStep
      <3>2. QED
        BY <1>3, <2>6, <2>11, <3>1 DEF Succeeded, q
    <2>12. CASE RateLimitCounted(r)
      <3>1. PICK seconds \in RetryAfters \cup {NoRetryAfter} :
              req'[r] = Goto(WithRetryAfter(q, seconds), "counted")
        BY <1>3, <2>12 DEF RateLimitCounted, q
      <3> DEFINE w == WithRetryAfter(q, seconds)
      <3>2. /\ w \in GoodStates /\ Walk(w, made) /\ w.pc = "waiting"
            /\ \A n : Onward(w, n, made) => Onward(q, n, made)
        BY <1>1, <2>1, <2>12, RetryAfterWalks DEF AnswerStep
      <3> HIDE DEF w
      <3>3. Onward(w, Goto(w, "counted"), made)
        BY <3>2, GotoWalks
      <3>4. QED
        BY <3>1, <3>2, <3>3 DEF w
    <2>13. CASE AccountLimitReached(r)
      <3>1. PICK seconds \in RetryAfters \cup {NoRetryAfter} :
              LET w == WithRetryAfter(q, seconds) IN
              req'[r] = ContinueOr(w, RespondRateLimited(w))
        BY <1>3, <2>13 DEF AccountLimitReached, q
      <3> DEFINE w == WithRetryAfter(q, seconds)
      <3>2. /\ w \in GoodStates /\ Walk(w, made) /\ w.pc \in Calling
            /\ \A n : Onward(w, n, made) => Onward(q, n, made)
        BY <1>1, <2>1, RetryAfterWalks
      <3> HIDE DEF w
      <3>3. AllConsidered(w) => Onward(w, RespondRateLimited(w), made)
        BY <3>2, RespondRateLimitedWalks
      <3>4. Onward(w, ContinueOr(w, RespondRateLimited(w)), made)
        BY <3>2, <3>3, ContinueOrWalks
      <3>5. QED
        BY <3>1, <3>2, <3>4 DEF w
    <2>14. CASE RateLimitApplied(r)
      <3>1. AllConsidered(q) => Onward(q, RespondRateLimited(q), made)
        BY <1>1, <2>1, RespondRateLimitedWalks
      <3>2. Onward(q, ContinueOr(q, RespondRateLimited(q)), made)
        BY <1>1, <2>1, <3>1, ContinueOrWalks
      <3>3. QED
        BY <1>3, <2>14, <3>2 DEF RateLimitApplied, q
    <2>15. QED
      BY <1>6, <2>7, <2>8, <2>9, <2>10, <2>11, <2>12, <2>13, <2>14 DEF AnswerStep
  <1>7. QED
    BY <1>4, <1>5, <1>6

\* The filter and the head of the loop; only the latter calls.
LEMMA CheckWalks ==
    ASSUME RequestInv, HistoryTypeOK, WalkInv, NEW r \in Requests,
           FilterUpstream(r) \/ FilterModel(r) \/ LoopUpstream(r) \/ LoopModel(r)
    PROVE  \/ UNCHANGED calls /\ Onward(req[r], req'[r], calls[r])
           \/ /\ req[r].pc = "loopModel"
              /\ calls' = [calls EXCEPT ![r] = Append(calls[r], Current(req[r]))]
              /\ req'[r].list = req[r].list /\ req'[r].reply = req[r].reply
              /\ Walk(req'[r], Append(calls[r], Current(req[r])))
  <1> DEFINE q == req[r]
             made == calls[r]
  <1>1. q \in GoodStates /\ made \in Seq(Specs) /\ Walk(q, made)
    BY DEF RequestInv, HistoryTypeOK, WalkInv
  <1>2. \A n : Step(r, n) => req'[r] = n
    BY DEF Step, RequestInv
  <1>3. q.pc \in Filtering => made = <<>>
    BY <1>1 DEF Walk, CallsMade
  <1>4. CASE FilterUpstream(r)
    <2>1. UNCHANGED calls /\ q.pc = "filterUpstream"
      BY <1>4 DEF FilterUpstream, historyVars
    <2>2. \/ req'[r] = NextListed(Mark(q, q.list[q.pos], "disabled"))
          \/ req'[r] = Goto(q, "filterModel")
      BY <1>2, <1>4 DEF FilterUpstream
    <2> HIDE DEF q, made
    <2>3. QED
      BY <1>1, <1>3, <2>1, <2>2, DropWalks, NextCheckWalks DEF Onward, Filtering, q, made
  <1>5. CASE FilterModel(r)
    <2>1. UNCHANGED calls /\ q.pc = "filterModel"
      BY <1>5 DEF FilterModel, historyVars
    <2>2. \/ req'[r] = NextListed(Mark(q, q.list[q.pos], "disabled"))
          \/ req'[r] = NextListed([q EXCEPT !.usable = Append(q.usable, q.list[q.pos])])
      BY <1>2, <1>5 DEF FilterModel
    <2> HIDE DEF q, made
    <2>3. QED
      BY <1>1, <1>3, <2>1, <2>2, DropWalks, KeepWalks DEF Onward, Filtering, q, made
  <1>6. CASE LoopUpstream(r)
    <2>1. UNCHANGED calls /\ q.pc = "loopUpstream"
      BY <1>6 DEF LoopUpstream, historyVars
    <2>2. \/ req'[r] = Continue(Mark(q, Current(q), "disabled"))
          \/ req'[r] = Goto(q, "loopModel")
      BY <1>2, <1>6 DEF LoopUpstream
    <2> HIDE DEF q, made
    <2>3. QED
      BY <1>1, <2>1, <2>2, SkipWalks, NextCheckWalks DEF Heads, q, made
  <1>7. CASE LoopModel(r)
    <2>1. q.pc = "loopModel"
      BY <1>7 DEF LoopModel
    <2>2. \/ /\ UNCHANGED calls
             /\ \E fate \in {"disabled", "noProvider"} :
                   req'[r] = Continue(Mark(q, Current(q), fate))
          \/ /\ calls' = [calls EXCEPT ![r] = Append(calls[r], Current(q))]
             /\ req'[r] = [Mark(q, Current(q), "called")
                             EXCEPT !.pc = "waiting", !.doomed = q.ctxDone]
      BY <1>2, <1>7 DEF LoopModel
    <2> HIDE DEF q, made
    <2>3. QED
      BY <1>1, <2>1, <2>2, SkipWalks, CallWalks DEF Heads, q, made
  <1>8. QED
    BY <1>4, <1>5, <1>6, <1>7

\* The list the routing chose is walked from its first model.
LEMMA ArriveWalks ==
    ASSUME RequestInv, WalkInv, NEW r \in Requests, Arrive(r)
    PROVE  /\ UNCHANGED calls /\ Walk(req'[r], calls[r])
           /\ req[r].list = <<>> /\ req'[r].list \in PreferenceLists
           /\ req'[r].reply = req[r].reply
  <1> DEFINE q == req[r]
             n == req'[r]
             made == calls[r]
  <1>1. q \in GoodStates /\ Walk(q, made) /\ q.pc = "idle"
    BY DEF RequestInv, WalkInv, Arrive
  <1>2. PICK list \in PreferenceLists, stream \in Modes :
          Step(r, [q EXCEPT !.pc = "filterUpstream", !.list = list, !.stream = stream])
    BY DEF Arrive
  <1>3. n = [q EXCEPT !.pc = "filterUpstream", !.list = list, !.stream = stream]
    BY <1>2 DEF Step, RequestInv
  <1>4. /\ n.pc = "filterUpstream" /\ n.list = list /\ n.usable = q.usable
        /\ n.pos = q.pos /\ n.fate = q.fate /\ n.reply = q.reply
    BY <1>1, <1>3 DEF GoodStates, RequestStates
  <1>5. /\ q.usable = <<>> /\ q.list = <<>> /\ made = <<>> /\ q.pos = 1
        /\ q.reply.kind = "none" /\ q.reply.spec = NoSpec
    BY <1>1 DEF Walk, ListKept, CallsMade, OpenReply, GoodStates, Placed
  <1>6. UNCHANGED calls
    BY DEF Arrive, historyVars
  <1> HIDE DEF n, q, made
  <1>7. NoneDropped(n)
    BY <1>4, <1>5 DEF NoneDropped, Looping, Calling, GaveUp
  <1>8. JumpsExplained(n, made)
    BY <1>1, <1>4 DEF Walk, JumpsExplained
  <1>9. ListKept(n)
    <2>1. Len(n.usable) = 0
      BY <1>4, <1>5, EmptySeq
    <2>2. QED
      BY <1>2, <1>4, <2>1 DEF ListKept
  <1>10. CallsMade(n, made) /\ OpenReply(n)
    BY <1>4, <1>5 DEF CallsMade, OpenReply, Heads, Calling
  <1>11. QED
    BY <1>2, <1>4, <1>5, <1>6, <1>7, <1>8, <1>9, <1>10 DEF Walk, n, q, made

\* The end of the context moves nothing the walk speaks of.
LEMMA ContextEndsWalks ==
    ASSUME RequestInv, WalkInv, NEW r \in Requests, ContextEnds(r)
    PROVE  /\ UNCHANGED calls /\ Walk(req'[r], calls[r])
           /\ req'[r].list = req[r].list /\ req'[r].reply = req[r].reply
  <1> DEFINE q == req[r]
             n == req'[r]
             made == calls[r]
  <1>1. q \in GoodStates /\ Walk(q, made)
    BY DEF RequestInv, WalkInv
  <1>2. n = [q EXCEPT !.ctxDone = TRUE]
    BY DEF ContextEnds, Step, RequestInv
  <1>3. /\ n.pc = q.pc /\ n.list = q.list /\ n.usable = q.usable
        /\ n.pos = q.pos /\ n.fate = q.fate /\ n.reply = q.reply
    BY <1>1, <1>2 DEF GoodStates, RequestStates
  <1>4. n \in RequestStates
    BY <1>1, <1>2 DEF GoodStates, RequestStates
  <1>5. UNCHANGED calls
    BY DEF ContextEnds, historyVars
  <1> HIDE DEF n, q, made
  <1>6. OpenReply(n) /\ (n.pc = "exhausted" \/ n.reply.kind \in GaveUp => AllConsidered(q))
    BY <1>1, <1>3 DEF Walk, OpenReply, NoneDropped
  <1>7. Walk(n, made)
    BY <1>1, <1>3, <1>4, <1>6, SamePosition DEF Considered
  <1>8. QED
    BY <1>3, <1>5, <1>7 DEF n, q, made

-----------------------------------------------------------------------------
(* The theorems. *)

\* A step of one request leaves the others where they are.
LEMMA OthersStay ==
    ASSUME RequestInv, NEW r \in Requests, Arrive(r) \/ RequestStep(r) \/ ContextEnds(r)
    PROVE  \A other \in Requests \ {r} : req'[other] = req[other]
  <1>1. \E q : Step(r, q)
    BY DEF RequestStep, FilterUpstream, FilterModel, LoopUpstream, LoopModel, AnswerStep,
       RateLimitApplied, Parsed, ParsedFailure, StreamEnds, Exhausted, CannotEncode,
       CannotMarshal, TransportError, BodyBreaksOff, RateLimitCounted, AccountLimitReached,
       Overloaded, ModelGone, Rejected, Succeeded, AnsweredPlainly, AnsweredGarbage,
       Arrive, ContextEnds
  <1>2. QED
    BY <1>1 DEF Step, RequestInv

\* WalkInv is inductive.
LEMMA WalkInvStep ==
    ASSUME RequestInv, HistoryTypeOK, WalkInv, [FallbackNext]_fallbackVars
    PROVE  WalkInv'
  <1>1. ASSUME NEW r \in Requests, Arrive(r) \/ RequestStep(r) \/ ContextEnds(r)
        PROVE  WalkInv'
    <2>1. /\ calls' = calls \/ calls' = [calls EXCEPT ![r] = Append(calls[r], Current(req[r]))]
          /\ Walk(req'[r], calls'[r])
      <3>1. CASE Arrive(r) \/ ContextEnds(r)
        BY <3>1, ArriveWalks, ContextEndsWalks
      <3>2. CASE FilterUpstream(r) \/ FilterModel(r) \/ LoopUpstream(r) \/ LoopModel(r)
        BY <3>2, CheckWalks DEF Onward, HistoryTypeOK
      <3>3. CASE \/ AnswerStep(r) \/ RateLimitApplied(r) \/ Parsed(r) \/ ParsedFailure(r)
                 \/ StreamEnds(r) \/ Exhausted(r)
        BY <3>3, AnswerWalks DEF Onward
      <3>4. QED
        BY <1>1, <3>1, <3>2, <3>3 DEF RequestStep
    <2>2. \A other \in Requests \ {r} : calls'[other] = calls[other] /\ req'[other] = req[other]
      BY <1>1, <2>1, OthersStay DEF HistoryTypeOK
    <2>3. QED
      BY <2>1, <2>2 DEF WalkInv
  <1>2. CASE UNCHANGED <<req, calls>>
    BY <1>2 DEF WalkInv
  <1>3. QED
    BY <1>1, <1>2 DEF FallbackNext, TimePasses, Reset, ConfigChanges, RouterReplaced,
                      AllAnswered, fallbackVars, historyVars

\* Every request is always on its walk.
LEMMA WalkInvariant == FallbackSpec => []WalkInv /\ []HistoryTypeOK
  <1>1. FallbackInit => WalkInv /\ HistoryTypeOK
    <2> SUFFICES ASSUME FallbackInit PROVE WalkInv /\ HistoryTypeOK
      OBVIOUS
    <2>1. HistoryTypeOK
      BY EmptySeq DEF FallbackInit, HistoryTypeOK
    <2>2. Walk(NewRequest, <<>>)
      BY EmptySeq
         DEF NewRequest, NoReply, Walk, NoneDropped, JumpsExplained, ListKept, CallsMade,
             OpenReply, Filtering, Looping, Heads, Calling, GaveUp
    <2>3. QED
      BY <2>1, <2>2 DEF FallbackInit, WalkInv
  <1>2. FallbackSpec => []BreakerTypeOK
    BY BreakerRefined, BreakerTypeCorrect DEF UsesBreaker
  <1>3. RequestInv /\ BreakerTypeOK /\ HistoryTypeOK /\ [FallbackNext]_fallbackVars
          => HistoryTypeOK'
    BY HistoryTypeStep
  <1>4. RequestInv /\ HistoryTypeOK /\ WalkInv /\ [FallbackNext]_fallbackVars => WalkInv'
    BY WalkInvStep
  <1>5. QED
    BY <1>1, <1>2, <1>3, <1>4, RequestInvariant, PTL DEF FallbackSpec

\* A request is only refused after every model of its preference list has been
\* called, found disabled or without provider, or jumped over after a call of
\* its sibling could not be encoded (handlers.go:622-886,
\* handlers_stream.go:25-295).
THEOREM NothingLeftUntried == FallbackSpec => []NothingUntried
  <1>1. RequestInv /\ WalkInv => NothingUntried
    <2> SUFFICES ASSUME RequestInv, WalkInv, NEW r \in Requests,
                        req[r].pc = "done", req[r].reply.kind \in GaveUp,
                        NEW s \in ElementsOf(req[r].list)
                 PROVE  /\ req[r].fate[s] # "untouched"
                        /\ req[r].fate[s] = "jumped" =>
                              \E called \in ElementsOf(calls[r]) : called[1] = s[1]
      BY DEF NothingUntried
    <2>1. s \in Specs
      BY ListedAreSpecs DEF RequestInv, GoodStates
    <2>2. QED
      BY <2>1 DEF WalkInv, Walk, NoneDropped, JumpsExplained, AllConsidered, Considered
  <1>2. QED
    BY <1>1, RequestInvariant, WalkInvariant, PTL

\* What the client has been told, as the contract sees it.
Seen(q) == [kind |-> q.reply.kind, spec |-> q.reply.spec]

\* An answer given at q is one the contract allows.
LEMMA AnswerAllowed ==
    ASSUME RequestInv, HistoryTypeOK, WalkInv, NEW r \in Requests,
           RequestStep(r), UNCHANGED calls, SeenAs(req[r], req'[r])
    PROVE  Contract!Serve(r) \/ Contract!Refuse(r) \/ UNCHANGED Contract!contractVars
  <1> DEFINE q == req[r]
             n == req'[r]
             reply == [c \in Requests |-> [kind |-> req[c].reply.kind, spec |-> req[c].reply.spec]]
             list == [c \in Requests |-> req[c].list]
  <1>1. \A other \in Requests \ {r} : req'[other] = req[other]
    BY OthersStay
  <1>2. list' = list
    BY <1>1 DEF SeenAs
  <1>3. reply' = [reply EXCEPT ![r] = Seen(n)]
    BY <1>1 DEF Seen
  <1>4. CASE n.reply.kind = q.reply.kind /\ n.reply.spec = q.reply.spec
    <2>1. reply' = reply
      BY <1>1, <1>4
    <2>2. QED
      BY <1>2, <2>1 DEF Contract!contractVars
  <1>5. CASE ~(n.reply.kind = q.reply.kind /\ n.reply.spec = q.reply.spec)
    <2>1. q.pc \in Calling \cup {"exhausted"}
      BY <1>5 DEF SeenAs
    <2>2. Walk(q, calls[r]) /\ q.pc \notin {"idle", "streaming", "done"}
      BY <2>1 DEF WalkInv, Calling
    <2>3. list[r] # <<>> /\ reply[r] = [kind |-> "none", spec |-> NoSpec]
      BY <2>2, ListsAssumption DEF Walk, ListKept, OpenReply
    <2>4. Contract!Open(r)
      BY <2>3 DEF Contract!Open, Contract!Arrived, Contract!Unanswered
    <2>5. q.pc \in Calling =>
            calls[r] # <<>> /\ calls[r][Len(calls[r])] = Current(q)
      BY <2>2 DEF Walk, CallsMade
    <2>6. CASE q.pc \in Calling /\ n.reply.kind = "served" /\ n.reply.spec = Current(q)
      BY <1>2, <1>3, <2>4, <2>5, <2>6 DEF Contract!Serve, Seen
    <2>7. CASE /\ n.reply.spec = q.reply.spec
               /\ \/ n.reply.kind \in {"rateLimited", "gatewayError"}
                  \/ /\ q.pc \in Calling
                     /\ n.reply.kind \in {"upstreamError", "conversionError", "aborted"}
      <3>1. reply' = [reply EXCEPT ![r].kind = n.reply.kind]
        BY <1>3, <2>7 DEF Seen
      <3>2. /\ n.reply.kind \in Contract!RelayedReplies \cup Contract!OwnReplies
            /\ n.reply.kind \in Contract!RelayedReplies => calls[r] # <<>>
        BY <2>5, <2>7 DEF Contract!RelayedReplies, Contract!OwnReplies
      <3>3. QED
        BY <1>2, <2>4, <3>1, <3>2 DEF Contract!Refuse
    <2>8. QED
      BY <1>5, <2>6, <2>7 DEF SeenAs
  <1>6. QED
    BY <1>4, <1>5

\* A call goes to a model of the list behind all those called before.
LEMMA CallAllowed ==
    ASSUME RequestInv, HistoryTypeOK, WalkInv, NEW r \in Requests,
           RequestStep(r), req[r].pc = "loopModel",
           calls' = [calls EXCEPT ![r] = Append(calls[r], Current(req[r]))],
           req'[r].list = req[r].list, req'[r].reply = req[r].reply
    PROVE  Contract!Call(r)
  <1> DEFINE q == req[r]
             reply == [c \in Requests |-> [kind |-> req[c].reply.kind, spec |-> req[c].reply.spec]]
             list == [c \in Requests |-> req[c].list]
  <1>1. \A other \in Requests \ {r} : req'[other] = req[other]
    BY OthersStay
  <1>2. list' = list /\ reply' = reply
    BY <1>1
  <1>3. Walk(q, calls[r]) /\ q \in GoodStates
    BY DEF WalkInv, RequestInv
  <1>4. list[r] # <<>> /\ reply[r] = [kind |-> "none", spec |-> NoSpec]
    BY <1>3, ListsAssumption DEF Walk, ListKept, OpenReply
  <1>5. Contract!Open(r)
    BY <1>4 DEF Contract!Open, Contract!Arrived, Contract!Unanswered
  <1>6. q.pos \in Nat /\ q.pos \in 1..Len(q.usable)
    BY <1>3 DEF GoodStates, RequestStates, Placed, Looping
  <1>7. PICK i \in 1..Len(q.list) : q.list[i] = Current(q)
    BY <1>3, <1>6 DEF Walk, ListKept, Looping, Current
  <1>8. ASSUME NEW c \in 1..Len(calls[r]), NEW j \in 1..Len(q.list), q.list[j] = calls[r][c]
        PROVE  j < i
    <2>1. PICK a \in 1 .. q.pos - 1 : calls[r][c] = q.usable[a]
      BY <1>3 DEF Walk, CallsMade, Heads
    <2>2. a \in 1..Len(q.usable) /\ a < q.pos
      BY <1>6, <2>1, ListedAreSpecs, <1>3 DEF GoodStates
    <2>3. q.usable[a] = q.list[j] /\ q.usable[q.pos] = q.list[i]
      BY <1>7, <1>8, <2>1 DEF Current
    <2>4. QED
      BY <1>3, <1>6, <2>2, <2>3 DEF Walk, ListKept
  <1>9. Contract!StillAhead(r, i)
    BY <1>8 DEF Contract!StillAhead
  <1>10. QED
    BY <1>2, <1>5, <1>7, <1>9 DEF Contract!Call

\* Every step is one the contract allows, or one the client does not see.
LEMMA ContractStep ==
    ASSUME RequestInv, HistoryTypeOK, WalkInv, [FallbackNext]_fallbackVars
    PROVE  [Contract!ContractNext]_(Contract!contractVars)
  <1> DEFINE reply == [c \in Requests |-> [kind |-> req[c].reply.kind, spec |-> req[c].reply.spec]]
             list == [c \in Requests |-> req[c].list]
  <1>1. ASSUME NEW r \in Requests, RequestStep(r)
        PROVE  Contract!ContractNext \/ UNCHANGED Contract!contractVars
    <2>1. \/ UNCHANGED calls /\ SeenAs(req[r], req'[r])
          \/ /\ req[r].pc = "loopModel"
             /\ calls' = [calls EXCEPT ![r] = Append(calls[r], Current(req[r]))]
             /\ req'[r].list = req[r].list /\ req'[r].reply = req[r].reply
      BY <1>1, CheckWalks, AnswerWalks DEF RequestStep, Onward
    <2>2. QED
      BY <1>1, <2>1, AnswerAllowed, CallAllowed DEF Contract!ContractNext
  <1>2. ASSUME NEW r \in Requests, Arrive(r)
        PROVE  Contract!ContractNext
    <2>1. \A other \in Requests \ {r} : req'[other] = req[other]
      BY <1>2, OthersStay
    <2>2. /\ UNCHANGED calls /\ req[r].list = <<>> /\ req'[r].list \in PreferenceLists
          /\ req'[r].reply = req[r].reply
      BY <1>2, ArriveWalks
    <2>3. reply' = reply /\ list' = [list EXCEPT ![r] = req'[r].list] /\ list[r] = <<>>
      BY <2>1, <2>2
    <2>4. Contract!Receive(r)
      BY <2>2, <2>3 DEF Contract!Receive, Contract!Arrived
    <2>5. QED
      BY <2>4 DEF Contract!ContractNext
  <1>3. ASSUME NEW r \in Requests, ContextEnds(r)
        PROVE  UNCHANGED Contract!contractVars
    <2>1. \A other \in Requests \ {r} : req'[other] = req[other]
      BY <1>3, OthersStay
    <2>2. /\ UNCHANGED calls /\ req'[r].list = req[r].list
          /\ req'[r].reply = req[r].reply
      BY <1>3, ContextEndsWalks
    <2>3. reply' = reply /\ list' = list
      BY <2>1, <2>2
    <2>4. QED
      BY <2>2, <2>3 DEF Contract!contractVars
  <1>4. CASE UNCHANGED <<req, calls>>
    BY <1>4 DEF Contract!contractVars
  <1>5. QED
    BY <1>1, <1>2, <1>3, <1>4 DEF FallbackNext, TimePasses, Reset, ConfigChanges,
       RouterReplaced, AllAnswered, fallbackVars, historyVars

\* Whatever the upstreams answer and whatever other requests do to the breaker,
\* a client sees what MessagesContract promises: the models of one list called
\* in order, each at most once, one answer, and a 200 only from the model
\* called last (README.md:450, handlers.go:622-886, handlers_stream.go:25-295).
THEOREM ContractServed == FallbackSpec => ServesContract
  <1>1. FallbackInit => Contract!ContractInit
    BY DEF FallbackInit, NewRequest, NoReply, Contract!ContractInit, Contract!Unanswered
  <1>2. RequestInv /\ HistoryTypeOK /\ WalkInv /\ [FallbackNext]_fallbackVars
          => [Contract!ContractNext]_(Contract!contractVars)
    BY ContractStep
  <1>3. QED
    BY <1>1, <1>2, RequestInvariant, WalkInvariant, PTL
       DEF FallbackSpec, ServesContract, Contract!ContractSpec
===============================================================================
