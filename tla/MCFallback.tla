------------------------------ MODULE MCFallback ------------------------------
(***************************************************************************)
(* Fallback on small instances: one or two concurrent requests over the    *)
(* upstreams zen and codex.  Each .cfg picks the preference lists, what    *)
(* the upstreams may answer and what may happen around the requests.       *)
(***************************************************************************)
EXTENDS Fallback, TLC

CONSTANTS r1, r2, zen, codex, big, small

MCOneRequest == {r1}
MCTwoRequests == {r1, r2}
RequestSymmetry == Permutations(MCTwoRequests)

MCOneUpstream == {zen}
MCTwoUpstreams == {zen, codex}
MCOneModel == {big}
MCTwoModels == {big, small}

\* In and out of the published list; every other model is a discovered one.
MCFixed == {{<<zen, big>>}}
MCReconfigured == {{}, {<<zen, big>>}}

\* The same model on two upstreams.
MCPairs == {<< <<zen, big>>, <<codex, big>> >>}
\* Two models of one upstream.
MCSiblings == {<< <<zen, big>>, <<zen, small>> >>}
\* All of one upstream before and after the other one: three models.
MCMixed == {<< <<zen, big>>, <<codex, big>>, <<zen, small>> >>,
            << <<zen, big>>, <<zen, small>>, <<codex, big>> >>}

MCPlain == {FALSE}
MCBothModes == BOOLEAN

MCRegistries == {{zen}, {zen, codex}}
MCFullRegistry == {MCTwoUpstreams}
MCZenRegistry == {{zen}}
===============================================================================
