---------------------------- MODULE MCCodexStream ----------------------------
(***************************************************************************)
(* CodexStream for responses of two items.  Items are numbered from 1, as  *)
(* after a reasoning item that the terminal event leaves out: the position  *)
(* of an item is not its index.                                            *)
(***************************************************************************)
EXTENDS CodexStream

MCCalls == 0..3
AllTheHabits == AllHabits

\* The response with items of these kinds, whose events carry these ids, and at
\* most that many deltas of each.
Response(kinds, ids, maxDeltas) ==
    [i \in DOMAIN kinds |-> [kind |-> kinds[i], index |-> i, ids |-> ids[i],
                             maxDeltas |-> maxDeltas[i]]]

Named == <<Ids, Ids>>
MCOutputs == { Response(<<"text", "call">>, Named, <<2, 1>>),
               Response(<<"call", "text">>, <<Ids, Ids \ {"delta"}>>, <<1, 1>>),
               Response(<<"call", "call">>, Named, <<1, 1>>),
               Response(<<"bare", "call">>, Named, <<0, 1>>),
               Response(<<"text", "bare">>, Named, <<1, 0>>),
               Response(<<"text", "call">>, <<Ids \ {"listed"}, {"listed"}>>, <<1, 1>>) }
MCTwoCalls == { Response(<<"call", "call">>, Named, <<1, 1>>) }
===============================================================================
