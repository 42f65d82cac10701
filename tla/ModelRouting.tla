---------------------------- MODULE ModelRouting ----------------------------
(***************************************************************************)
(* The ordered list of models, where it is kept and how a request uses it. *)
(*                                                                         *)
(* The configuration in force is the handler's, an atomic pointer; main    *)
(* and the dashboard keep one of their own (always the same, here main),   *)
(* and the file another.  They are changed by                              *)
(*                                                                         *)
(*   a save, of the dashboard's form, which has no models, or through the  *)
(*     API, which may have some                           (main.go)        *)
(*   a reordering of the models                           (main.go)        *)
(*   the discovery of the free models after a start       (server.go)      *)
(*   a restart, which loads the file under the environment (config.go)     *)
(*                                                                         *)
(* each in several steps, while the catalog of the upstream is fetched and *)
(* HandleMessages loads the configuration once for every decision it takes.*)
(* Credentials has the tokens and the writing of the file.                 *)
(***************************************************************************)
EXTENDS Naturals, Sequences, SequencesExt

CONSTANTS
    Names,          \* models
    Home,           \* the upstream a model is listed with
    None,           \* no model, or no catalog
    Urls,           \* what ZenBaseURL may be
    OpenCode,       \* the one of OpenCode Zen
    Free,           \* by URL, the free models of its catalog, in its order
    Orders,         \* what a reordering may ask for
    Forms,          \* what a save may submit: the form has no models, the API may
    FirstStarts,    \* what file, overrides and codex may be at first
    Operations,     \* those that may run
    Fetchers,       \* who fetches the catalog: Startup, and listings of the models
    Startup

\* A list has no model twice: dedupeModels, FilteredModels and ReorderModels drop
\* repetitions.
Lists == {models \in Seq(Names) : IsInjective(models)}

ASSUME HomeAssumption == Home \in [Names -> {"zen", "codex"}] /\ None \notin Names \cup Urls
ASSUME UrlsAssumption == OpenCode \in Urls /\ Free \in [Urls -> Lists]
ASSUME OrdersAssumption == Orders \subseteq Lists \ {<<>>}
ASSUME FormsAssumption ==
    Forms \subseteq [models : Lists, routing : Names \cup {None}, unlisted : BOOLEAN, url : Urls]
ASSUME ActorsAssumption == Startup \in Fetchers /\ Fetchers \cap Operations = {}

VARIABLES
    handler,     \* h.cfg
    main,        \* cfg of main
    file,        \* config.json
    overrides,   \* the models given by flags or environment, <<>> when they are not
    codex,       \* whether the registry has a Codex client
    catalog,     \* models.Catalog: its URL, and the URL its models are of
    work,        \* what each operation is doing, and with which configuration
    fetch,       \* what each fetcher is doing
    request,     \* a call of HandleMessages
    overlapped,  \* history: two changed the configuration at once
    crossed      \* history: the catalog was reconfigured during a fetch

vars == <<handler, main, file, overrides, codex, catalog, work, fetch, request, overlapped, crossed>>

configVars == <<handler, main, file, overrides, codex>>

\* Of a configuration, the models in order, the model requests of a kind are
\* routed to (ReasoningModel, CompletionModel), AllowUnlisted, OnlyPreferredModels
\* and ZenBaseURL.
Configs == [models : Lists, routing : Names \cup {None}, unlisted : BOOLEAN, only : BOOLEAN, url : Urls]
ASSUME FirstAssumption == FirstStarts \subseteq [file : Configs, overrides : Lists, codex : BOOLEAN]

-----------------------------------------------------------------------------
(* config_precompute.go, config_validate.go, and the layers of Load. *)

DefaultModel(cfg) == IF cfg.models = <<>> THEN None ELSE Head(cfg.models)

Listed(cfg) == Range(cfg.models)

\* The elements of a sequence that are in set, in their order.
Kept(seq, set) ==
    LET kept[n \in 0 .. Len(seq)] ==
            IF n = 0 THEN <<>>
            ELSE IF seq[n] \in set THEN Append(kept[n - 1], seq[n])
            ELSE kept[n - 1]
    IN  kept[Len(seq)]

\* Mutant: the models that requests are routed to are not in allowedModels.
IsModelListed(cfg, name) == name # None /\ name \in Listed(cfg)

\* allowedModels.
IsModelAllowed(cfg, name) == name # None /\ name \in Listed(cfg) \cup {cfg.routing}

UpstreamForModel(cfg, name) == IF name \in Listed(cfg) THEN Home[name] ELSE "zen"

\* Without models the catalog has to be that of OpenCode Zen.
Valid(cfg) == cfg.models # <<>> \/ cfg.url = OpenCode

\* What a start makes of the file: flags and environment come before it.
Loaded == IF overrides = <<>> THEN file ELSE [file EXCEPT !.models = overrides]

\* applyFileConfig on DefaultConfig: what is submitted, and the rest by default;
\* OnlyPreferredModels it does not apply.
FromForm(form) == [models |-> form.models, routing |-> form.routing, unlisted |-> form.unlisted,
                   only |-> FALSE, url |-> form.url]

Nothing == FromForm([models |-> <<>>, routing |-> None, unlisted |-> FALSE, url |-> OpenCode])

Requests ==
    [ pc : {"idle", "ready", "resolve", "compare", "kind", "route", "allow", "listed",
            "upstream", "build", "done"},
      ask : Names \cup {None}, resolved : Names \cup {None}, upstream : {"zen", "codex"},
      answer : {"none", "not ready", "refused", "list"},
      list : Seq([name : Names \cup {None}, upstream : {"zen", "codex"}]),
      inForce : SUBSET Configs ]

RoutingTypeOK ==
    /\ {handler, main, file} \subseteq Configs /\ Valid(handler) /\ Valid(main)
    /\ overrides \in Lists
    /\ {codex, overlapped, crossed} \subseteq BOOLEAN
    /\ catalog \in [url : Urls, of : Urls \cup {None}]
    /\ work \in [Operations ->
                   [pc : {"idle", "rebuild", "store", "take", "persist", "over"}, next : Configs]]
    /\ fetch \in [Fetchers -> [pc : {"idle", "asked", "discover", "apply", "over"},
                               url : Urls, next : Configs]]
    /\ request \in Requests

-----------------------------------------------------------------------------
(* The request, one step for each configuration it loads.  inForce collects *)
(* those that have been in force since it began.                            *)

Requested(pc, resolved) == request' = [request EXCEPT !.pc = pc, !.resolved = resolved]

Answers(answer, list) == request' =
    [request EXCEPT !.pc = "done", !.answer = answer, !.list = list, !.resolved = None, !.upstream = "zen"]

unrouted == <<configVars, catalog, work, fetch, overlapped, crossed>>

Arrives ==
    /\ request.pc = "idle"
    /\ \E ask \in Names \cup {None} :     \* None is "custom"
          request' = [request EXCEPT !.pc = "ready", !.ask = ask, !.inForce = {handler}]
    /\ UNCHANGED unrouted

ChecksReady ==
    /\ request.pc = "ready"
    /\ IF DefaultModel(handler) = None THEN Answers("not ready", <<>>) ELSE Requested("resolve", None)
    /\ UNCHANGED unrouted

Resolves ==
    LET byName == request.ask # None /\ (request.ask \in Listed(handler) \/ handler.unlisted) IN
    /\ request.pc = "resolve"
    /\ Requested("compare", IF byName THEN request.ask ELSE DefaultModel(handler))
    /\ UNCHANGED unrouted

\* Mutant: a model asked for by name gives way to the one of its kind.
ComparesNothing ==
    /\ request.pc = "compare"
    /\ Requested("kind", request.resolved)
    /\ UNCHANGED unrouted

\* A kind of request may have a model of its own.
ComparesDefault ==
    /\ request.pc = "compare"
    /\ Requested(IF request.resolved = DefaultModel(handler) THEN "kind" ELSE "allow",
                 request.resolved)
    /\ UNCHANGED unrouted

ChecksRouting ==
    /\ request.pc = "kind"
    /\ Requested(IF handler.routing = None THEN "allow" ELSE "route", request.resolved)
    /\ UNCHANGED unrouted

\* Another configuration may have none: the model's name is then empty.
Routes ==
    /\ request.pc = "route"
    /\ Requested("allow", handler.routing)
    /\ UNCHANGED unrouted

ChecksUnlisted ==
    /\ request.pc = "allow"
    /\ Requested(IF handler.unlisted THEN "upstream" ELSE "listed", request.resolved)
    /\ UNCHANGED unrouted

ChecksAllowed ==
    /\ request.pc = "listed"
    /\ IF IsModelAllowed(handler, request.resolved)
       THEN Requested("upstream", request.resolved) ELSE Answers("refused", <<>>)
    /\ UNCHANGED unrouted

\* Mutant: what is not listed has no upstream of its own.
FindsAnyUpstream ==
    /\ request.pc = "upstream"
    /\ request' = [request EXCEPT !.pc = "build", !.upstream = "zen"]
    /\ UNCHANGED unrouted

FindsUpstream ==
    /\ request.pc = "upstream"
    /\ request' = [request EXCEPT !.pc = "build",
                                  !.upstream = UpstreamForModel(handler, request.resolved)]
    /\ UNCHANGED unrouted

Spec(name) == [name |-> name, upstream |-> Home[name]]
Specs(names) == [i \in DOMAIN names |-> Spec(names[i])]
NamesOf(list) == {list[i].name : i \in DOMAIN list}

\* appendDiscoveredModels, of a catalog that has Zen models only.
Discovered(list) ==
    LET found == IF catalog.of = None THEN <<>> ELSE Free[catalog.of]
        new == Kept(found, Names \ NamesOf(list)) IN
    [i \in DOMAIN new |-> [name |-> new[i], upstream |-> "zen"]]

\* Mutant: the resolved model is put first whatever is in the list.
PrependedPreferenceList(primary) == <<primary>> \o Specs(handler.models)

\* The models of Codex are left out when there is no client.
Usable == {name \in Names : Home[name] = "codex" => codex}

\* buildPreferenceList.
PreferenceList(primary) ==
    LET names == Kept(handler.models, Usable)
        others == Kept(names, Names \ {primary.name})
        list == IF Spec(Head(names)) = primary THEN Specs(names) ELSE <<primary>> \o Specs(others)
    IN  IF names = <<>> THEN <<primary>>
        ELSE IF handler.only THEN list ELSE list \o Discovered(list)

\* Mutant: the list is built of main's configuration.
BuildsListOfMain ==
    LET primary == [name |-> request.resolved, upstream |-> request.upstream]
        others == Kept(main.models, Names \ {primary.name}) IN
    /\ request.pc = "build"
    /\ Answers("list", <<primary>> \o Specs(others))
    /\ UNCHANGED unrouted

BuildsList ==
    LET primary == [name |-> request.resolved, upstream |-> request.upstream] IN
    /\ request.pc = "build"
    /\ Answers("list", PreferenceList(primary))
    /\ UNCHANGED unrouted

RequestStep ==
    \/ Arrives \/ ChecksReady \/ Resolves \/ ComparesDefault \/ ChecksRouting \/ Routes
    \/ ChecksUnlisted \/ ChecksAllowed \/ FindsUpstream \/ BuildsList

\* UpdateConfig.
Publishes(cfg) ==
    /\ handler' = cfg
    /\ request' = [request EXCEPT !.inForce =
                      IF request.pc \in {"idle", "done"} THEN @ ELSE @ \cup {cfg}]

-----------------------------------------------------------------------------
(* The catalog. *)

\* Between its first and its last change of a configuration.
Changing(actor) == IF actor \in Operations THEN work[actor].pc \notin {"idle", "over"}
                   ELSE actor = Startup /\ fetch[actor].pc = "apply"
Overlaps(actor) ==
    overlapped' = (overlapped \/ \E other \in (Operations \cup Fetchers) \ {actor} : Changing(other))

Unfetched == [pc |-> "idle", url |-> OpenCode, next |-> Nothing]

FetchStarts(f) ==
    /\ fetch[f].pc = "idle"
    /\ fetch' = [fetch EXCEPT ![f].pc = "asked", ![f].url = catalog.url]
    /\ UNCHANGED <<configVars, catalog, work, request, overlapped, crossed>>

FetchFails(f) ==
    /\ fetch[f].pc = "asked"
    /\ fetch' = [fetch EXCEPT ![f] = [Unfetched EXCEPT !.pc = "over"]]
    /\ UNCHANGED <<configVars, catalog, work, request, overlapped, crossed>>

\* An empty catalog does not replace the one there is.
FetchEnds(f) ==
    /\ fetch[f].pc = "asked"
    /\ catalog' = [catalog EXCEPT !.of = IF Free[fetch[f].url] = <<>> THEN @ ELSE fetch[f].url]
    /\ fetch' = [fetch EXCEPT ![f] =
                     [Unfetched EXCEPT !.pc = IF f = Startup THEN "discover" ELSE "over"]]
    /\ UNCHANGED <<configVars, work, request, overlapped, crossed>>

\* Mutant: an explicit list is replaced too.
DiscoversAnyhow(f) ==
    LET found == IF catalog.of = None THEN <<>> ELSE Free[catalog.of] IN
    /\ fetch[f].pc = "discover"
    /\ fetch' = [fetch EXCEPT ![f].pc = "apply", ![f].next = [handler EXCEPT !.models = found]]
    /\ Overlaps(f)
    /\ UNCHANGED <<configVars, catalog, work, request, crossed>>

\* ApplyDiscoveredOpenCodeModels up to its UpdateConfig.
Discovers(f) ==
    LET found == IF catalog.of = None THEN <<>> ELSE Free[catalog.of]
        fresh == handler.models = <<>> /\ found # <<>> IN
    /\ fetch[f].pc = "discover"
    /\ fetch' = [fetch EXCEPT ![f].pc = IF fresh THEN "apply" ELSE "over",
                              ![f].next = IF fresh THEN [handler EXCEPT !.models = found] ELSE @]
    /\ IF fresh THEN Overlaps(f) ELSE UNCHANGED overlapped
    /\ UNCHANGED <<configVars, catalog, work, request, crossed>>

Applies(f) ==
    /\ fetch[f].pc = "apply"
    /\ Publishes(fetch[f].next)
    /\ fetch' = [fetch EXCEPT ![f].pc = "over", ![f].next = Nothing]
    /\ UNCHANGED <<main, file, overrides, codex, catalog, work, overlapped, crossed>>

FetchStep(f) == FetchStarts(f) \/ FetchFails(f) \/ FetchEnds(f) \/ Discovers(f) \/ Applies(f)

-----------------------------------------------------------------------------
(* The operations. *)

Goes(o, pc, next) == work' = [work EXCEPT ![o].pc = pc, ![o].next = next]

\* What a save makes of what is submitted: without models it has main's.
Submitted(form) ==
    [FromForm(form) EXCEPT !.models = IF form.models = <<>> THEN main.models ELSE form.models]

\* Mutant: what is submitted is not validated.
SaveUnchecked(o) ==
    \E form \in Forms :
        /\ work[o].pc = "idle"
        /\ Goes(o, "rebuild", Submitted(form))
        /\ Publishes(Submitted(form))
        /\ Overlaps(o)
        /\ UNCHANGED <<main, file, overrides, codex, catalog, fetch, crossed>>

Save(o) ==
    \E form \in Forms :
        /\ work[o].pc = "idle" /\ Valid(Submitted(form))
        /\ Goes(o, "rebuild", Submitted(form))
        /\ Publishes(Submitted(form))
        /\ Overlaps(o)
        /\ UNCHANGED <<main, file, overrides, codex, catalog, fetch, crossed>>

\* Mutant: the cached models are kept.
RebuildRouterOnly(o) ==
    /\ work[o].pc = "rebuild"
    /\ catalog' = [catalog EXCEPT !.url = work[o].next.url]
    /\ main' = work[o].next
    /\ Goes(o, "persist", work[o].next)
    /\ UNCHANGED <<handler, file, overrides, codex, fetch, request, overlapped, crossed>>

\* RebuildRouter, with the catalog reconfigured, and the rest of the callback.
RebuildRouter(o) ==
    /\ work[o].pc = "rebuild"
    /\ catalog' = [url |-> work[o].next.url, of |-> None]
    /\ crossed' = (crossed \/ \E f \in Fetchers : fetch[f].pc = "asked")
    /\ main' = work[o].next
    /\ Goes(o, "persist", work[o].next)
    /\ UNCHANGED <<handler, file, overrides, codex, fetch, request, overlapped>>

\* ReorderModels up to its Store: the models named that are in the list.
Reorder(o) ==
    \E names \in Orders :
        LET models == Kept(names, Listed(handler)) IN
        /\ work[o].pc = "idle"
        /\ Goes(o, IF models = <<>> THEN "take" ELSE "store", [handler EXCEPT !.models = models])
        /\ Overlaps(o)
        /\ UNCHANGED <<configVars, catalog, fetch, request, crossed>>

Stores(o) ==
    /\ work[o].pc = "store"
    /\ Publishes(work[o].next)
    /\ Goes(o, "take", work[o].next)
    /\ UNCHANGED <<main, file, overrides, codex, catalog, fetch, overlapped, crossed>>

\* Mutant: main's cfg is left as it was.
TakesNothing(o) ==
    /\ work[o].pc = "take"
    /\ Goes(o, "persist", handler)
    /\ UNCHANGED <<configVars, catalog, fetch, request, overlapped, crossed>>

\* main takes the configuration of the handler.
Takes(o) ==
    /\ work[o].pc = "take"
    /\ main' = handler
    /\ Goes(o, "persist", handler)
    /\ UNCHANGED <<handler, file, overrides, codex, catalog, fetch, request, overlapped, crossed>>

Persists(o) ==
    /\ work[o].pc = "persist"
    /\ file' = work[o].next
    /\ Goes(o, "over", Nothing)
    /\ UNCHANGED <<handler, main, overrides, codex, catalog, fetch, request, overlapped, crossed>>

\* The proxy is stopped and started again; Start fetches the catalog.
Restarts(o) ==
    /\ work[o].pc = "idle" /\ Valid(Loaded)
    /\ handler' = Loaded /\ main' = Loaded
    /\ catalog' = [url |-> Loaded.url, of |-> None]
    /\ work' = [w \in Operations |->
                   IF w = o \/ work[w].pc # "idle" THEN [pc |-> "over", next |-> Nothing]
                   ELSE work[w]]
    /\ fetch' = [f \in Fetchers |-> IF f = Startup \/ fetch[f].pc = "idle"
                                    THEN Unfetched ELSE [Unfetched EXCEPT !.pc = "over"]]
    /\ IF request.pc \in {"idle", "done"} THEN UNCHANGED request ELSE Answers("none", <<>>)
    /\ UNCHANGED <<file, overrides, codex, overlapped, crossed>>

OperationStep(o) ==
    \/ Save(o) \/ RebuildRouter(o) \/ Reorder(o) \/ Stores(o) \/ Takes(o) \/ Persists(o) \/ Restarts(o)

-----------------------------------------------------------------------------

RoutingInit ==
    /\ \E first \in FirstStarts :
          file = first.file /\ overrides = first.overrides /\ codex = first.codex
    /\ Valid(Loaded)
    /\ handler = Loaded /\ main = Loaded
    /\ catalog = [url |-> file.url, of |-> None]
    /\ work = [o \in Operations |-> [pc |-> "idle", next |-> Nothing]]
    /\ fetch = [f \in Fetchers |-> Unfetched]
    /\ request = [pc |-> "idle", ask |-> None, resolved |-> None, upstream |-> "zen",
                  answer |-> "none", list |-> <<>>, inForce |-> {}]
    /\ overlapped = FALSE /\ crossed = FALSE

RoutingNext ==
    \/ RequestStep
    \/ \E f \in Fetchers : FetchStep(f)
    \/ \E o \in Operations : OperationStep(o)

RoutingSpec == RoutingInit /\ [][RoutingNext]_vars

-----------------------------------------------------------------------------
(* Properties *)

Routed == request.pc = "done" /\ request.answer = "list"

\* A model that every configuration in force during the request lists is tried,
\* if they route alike and it has a backend: the nine loads of HandleMessages
\* (handlers.go:546-626, 1055) never lose it between two of them.
AskedIsTried ==
    LET ask == request.ask IN
    request.pc = "done" /\ request.answer # "none" /\ ask # None =>
        \/ \E cfg \in request.inForce : ask \notin Listed(cfg)
        \/ \E cfg, other \in request.inForce : cfg.routing # other.routing
        \/ Home[ask] = "codex" /\ ~codex
        \/ Routed /\ ask \in NamesOf(request.list)

\* A model goes to the upstream it is listed with, unless that is Codex without a
\* client or a configuration in force during the request does not list it.
OwnUpstream ==
    Routed => \A i \in DOMAIN request.list :
        LET spec == request.list[i] IN
        \/ \E cfg \in request.inForce : spec.name \notin Listed(cfg)
        \/ Home[spec.name] = "codex" /\ ~codex
        \/ spec = Spec(spec.name)

\* What may head the list: the model asked for, if it is listed or others are
\* allowed; the default model; or the model of a kind, when the request came down
\* to the default, as one by a model that is not listed or by the default does.
MayHead(name) ==
    LET ask == request.ask IN
    \E cfg, other \in request.inForce :
        \/ name = ask /\ ask # None /\ (ask \in Listed(cfg) \/ cfg.unlisted)
        \/ name = DefaultModel(cfg)
        \/ name = cfg.routing /\ (ask \in {None, DefaultModel(other)} \/ ask \notin Listed(other))

\* No model is tried twice, the fallbacks come in the order of one configuration in
\* force during the request, never of one that had been replaced or was not
\* published yet, and only what may head the list comes out of that order.
FollowsAnOrder ==
    LET names == [i \in DOMAIN request.list |-> request.list[i].name]
        follows == Usable \ {Head(names)} IN
    Routed =>
        /\ IsInjective(names)
        /\ MayHead(Head(names))
        /\ \E cfg \in request.inForce : IsPrefix(Kept(cfg.models, follows), Tail(names))

\* When nobody is changing the configuration, main and the file have the one in
\* force, but for the models discovered since the start (only the handler has
\* them) and what flags and environment say, unless two changed it at once.
CopiesAgree ==
    (\A actor \in Operations \cup Fetchers : ~Changing(actor)) =>
        \/ overlapped
        \/ /\ main = [handler EXCEPT !.models = main.models]
           /\ handler.models \in {main.models} \cup {Free[url] : url \in Urls}
           /\ main \in {file, Loaded}

\* The catalog has models of the upstream configured only, unless a fetch was
\* under way when it changed (catalog.go:108-111).
CatalogOfUpstream == catalog.of \in {None, catalog.url} \/ crossed

\* As long as no two changes of the configuration have overlapped, the discovery of
\* a start replaces no list of models: one there when it looks, and one published
\* before it looks or after it is done, stays (handlers.go:203-222).
ExplicitKept ==
    [][handler.models # <<>> /\ work' = work => handler'.models = handler.models \/ overlapped]_vars

-----------------------------------------------------------------------------
(* What the repository says of the program and the code does not do. *)

\* "Preserve the running model selection so a plain config save does not wipe the
\* configured "models" list" (main.go:348-350).
SelectionPreserved ==
    [][handler.models # <<>> => handler'.models # <<>>]_vars

\* "Explicit user model lists are never changed" (handlers.go:202) by a
\* discovery, even by one that began when there was none.
ExplicitNeverChanged ==
    [][handler.models # <<>> /\ work' = work => handler'.models = handler.models]_vars
===============================================================================
