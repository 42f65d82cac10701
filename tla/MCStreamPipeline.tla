--------------------------- MODULE MCStreamPipeline ---------------------------
(***************************************************************************)
(* StreamPipeline with channels of one place.  Any lines in any order, and *)
(* for the chat protocol enough of them to fill every channel and leave    *)
(* the reader waiting at the first one.                                    *)
(***************************************************************************)
EXTENDS StreamPipeline

AllScripts(n) == UNION {[1 .. k -> LineKinds] : k \in 0 .. n}
Filling == [i \in 1 .. 6 |-> IF i < 6 THEN "data" ELSE "end"]

Endings == {<<"data", "end">>, <<"end", "data">>, <<"bad", "end">>}

MCScripts == [chat |-> AllScripts(2) \cup {Filling}, responses |-> Endings]
===============================================================================
