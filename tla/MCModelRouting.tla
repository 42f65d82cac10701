---------------------------- MODULE MCModelRouting ----------------------------
(***************************************************************************)
(* ModelRouting with two models of the upstreams zen and codex and a free  *)
(* one that is only discovered; two operations, two fetches, a request.    *)
(***************************************************************************)
EXTENDS ModelRouting

CONSTANTS a, c, free, opencode, other, listing, op1, op2

MCNames == {a, c, free}
MCHome == [name \in MCNames |-> IF name = c THEN "codex" ELSE "zen"]
MCUrls == {opencode, other}
MCFree == [url \in MCUrls |-> IF url = opencode THEN <<free>> ELSE <<a, c>>]
MCOrders == {<<c, a>>}
MCForm(models, routing, unlisted, url) ==
    [models |-> models, routing |-> routing, unlisted |-> unlisted, url |-> url]
MCForms == {MCForm(<<>>, None, FALSE, opencode), MCForm(<<>>, free, FALSE, other),
            MCForm(<<a, c>>, None, TRUE, opencode)}
MCFile(models, unlisted, only) ==
    [models |-> models, routing |-> None, unlisted |-> unlisted, only |-> only, url |-> opencode]
MCFirstStarts == {
    [file |-> MCFile(<<>>, FALSE, FALSE), overrides |-> <<>>, codex |-> TRUE],
    [file |-> MCFile(<<a, c>>, TRUE, FALSE), overrides |-> <<>>, codex |-> TRUE],
    [file |-> MCFile(<<a>>, FALSE, TRUE), overrides |-> <<a, c>>, codex |-> FALSE]}
MCOperations == {op1, op2}
OperationSymmetry == Permutations(MCOperations)
MCFetchers == {Startup, listing}
=============================================================================
