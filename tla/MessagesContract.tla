--------------------------- MODULE MessagesContract ---------------------------
(***************************************************************************)
(* What POST /v1/messages promises its clients (README.md:450): a request  *)
(* gets one ordered preference list; its models are called one after the   *)
(* other, each at most once and in that order; the request is answered     *)
(* once, and nothing is called after that ("once a streaming response has  *)
(* started, the proxy cannot switch upstreams").  A 200 comes from the     *)
(* model called last.  The breaker, the filter, the registry and the       *)
(* upstreams are not mentioned: they only decide which models are passed   *)
(* over and which answer is given.                                         *)
(***************************************************************************)
EXTENDS Naturals, Sequences

CONSTANTS
    Requests,        \* the requests the proxy may receive
    PreferenceLists, \* the lists a request may get
    NoModel          \* the model of an answer that is not a 200

Unanswered == [kind |-> "none", spec |-> NoModel]

\* Refusals that report what an upstream, or the conversion for one, said.
RelayedReplies == {"upstreamError", "conversionError", "aborted"}
\* Refusals the proxy may also give without calling anything.
OwnReplies == {"rateLimited", "gatewayError"}

VARIABLES
    list,  \* per request, <<>> until it arrives
    calls, \* per request, the models called so far
    reply  \* per request, the kind of its answer and the model it is from

contractVars == <<list, calls, reply>>

Arrived(r) == list[r] # <<>>
Open(r) == Arrived(r) /\ reply[r] = Unanswered

\* Position i of the list is behind every model called so far.
StillAhead(r, i) ==
    \A c \in 1..Len(calls[r]), j \in 1..Len(list[r]) : list[r][j] = calls[r][c] => j < i

ContractInit ==
    /\ list = [r \in Requests |-> <<>>]
    /\ calls = [r \in Requests |-> <<>>]
    /\ reply = [r \in Requests |-> Unanswered]

Receive(r) ==
    /\ ~Arrived(r)
    /\ \E l \in PreferenceLists : list' = [list EXCEPT ![r] = l]
    /\ UNCHANGED <<calls, reply>>

Call(r) ==
    /\ Open(r)
    /\ \E i \in 1..Len(list[r]) :
          /\ StillAhead(r, i)
          /\ calls' = [calls EXCEPT ![r] = Append(@, list[r][i])]
    /\ UNCHANGED <<list, reply>>

Serve(r) ==
    /\ Open(r)
    /\ calls[r] # <<>>
    /\ reply' = [reply EXCEPT ![r] = [kind |-> "served", spec |-> calls[r][Len(calls[r])]]]
    /\ UNCHANGED <<list, calls>>

Refuse(r) ==
    /\ Open(r)
    /\ \E kind \in RelayedReplies \cup OwnReplies :
          /\ kind \in RelayedReplies => calls[r] # <<>>
          /\ reply' = [reply EXCEPT ![r].kind = kind]
    /\ UNCHANGED <<list, calls>>

ContractNext == \E r \in Requests : Receive(r) \/ Call(r) \/ Serve(r) \/ Refuse(r)

ContractSpec == ContractInit /\ [][ContractNext]_contractVars
===============================================================================
