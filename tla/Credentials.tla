----------------------------- MODULE Credentials -----------------------------
(***************************************************************************)
(* The Codex credentials of a running proxy, kept in five places: the      *)
(* config file, the cache of LoadTokens (codex/oauth.go), the copy of the  *)
(* refresh goroutine, the configurations of main and of the handler, and   *)
(* the Codex client of the current registry.  They are moved by            *)
(*                                                                         *)
(*   the refresher   StartTokenRefresh (proxy/server.go)                   *)
(*   the watcher     StartConfigWatcher and reloadConfig                   *)
(*   operations      a dashboard save, a reordering of the models, a login *)
(*                   in the dashboard (main.go), a login on the command    *)
(*                   line, which is another process, and a restart         *)
(*                                                                         *)
(* The rest of the file is settings, of which only the writer matters.     *)
(* os.WriteFile truncates before it writes: in between the file is torn.   *)
(*                                                                         *)
(* Each login is to an account of its own and gives the tokens that the    *)
(* refreshes of its refresh token replace, generation by generation.       *)
(***************************************************************************)
EXTENDS Naturals, FiniteSets

CONSTANTS
    Operations,     \* operations that may run; 0 and 1 are none and the first login
    Kinds,          \* what they may be, a subset of AllKinds
    Refresher,      \* the refresh goroutine
    MaxGeneration   \* bound: generations of tokens of a login

AllKinds == {"save", "reorder", "dashboardLogin", "cliLogin", "restart"}

ASSUME OperationsAssumption == Operations \subseteq Nat \ {0, 1} /\ Refresher \notin Operations
ASSUME KindsAssumption == Kinds \subseteq AllKinds
ASSUME BoundsAssumption == MaxGeneration \in Nat \ {0}

VARIABLES
    file,        \* config.json
    modified,    \* its modification time is after the watcher's lastMod
    cache,       \* tokensCache
    config,      \* main's cfg and the handler's
    client,      \* the current registry's Codex client: whose token, for which account
    watcher,     \* the goroutine of StartConfigWatcher, and whether its registry is current
    work,        \* what each operation, and the refresher, is doing
    issued,      \* the authorization server: the generations it has given
    port,        \* the login that listens for its callback
    login,       \* the dashboard's loginStatus and loginURL
    overlapped   \* history: two have been changing the credentials at once

vars == <<file, modified, cache, config, client, watcher, work, issued, port, login, overlapped>>

Workers == Operations \cup {Refresher}
Logins == {0, 1} \cup Operations

\* The tokens and the login whose refresh token is with them.  An access token
\* and its account id are always kept together, except by the client.
Creds == [login : Logins, gen : 0..MaxGeneration, refresh : Logins]
NoCreds == [login |-> 0, gen |-> 0, refresh |-> 0]
Configs == [creds : Creds, settings : Logins]
Nothing == [creds |-> NoCreds, settings |-> 0]
Clients == [login : Logins, gen : 0..MaxGeneration, account : Logins]

\* NewClient; none without credentials.
ClientOf(creds) == [login |-> creds.login, gen |-> creds.gen, account |-> creds.login]

Pcs == {"idle", "start", "offer", "listen", "rebuild", "truncate", "fill", "keep", "over",
        "load", "publish", "wait", "read", "update", "off"}

Work == [kind : Kinds \cup {"none"}, pc : Pcs, next : Configs]

CredentialsTypeOK ==
    /\ file \in [torn : BOOLEAN, creds : Creds, settings : Logins]
    /\ modified \in BOOLEAN /\ overlapped \in BOOLEAN
    /\ cache \in Creds
    /\ config \in [main : Configs, handler : Configs]
    /\ client \in Clients
    /\ watcher \in [pc : {"idle", "read", "load", "set", "invalidate"}, seen : Creds, current : BOOLEAN]
    /\ work \in [Workers -> Work]
    /\ issued \in [Logins -> 0..MaxGeneration]
    /\ port \in {0} \cup {o \in Operations : work[o].pc \in {"offer", "listen"}}
    /\ login \in [status : {"idle", "pending", "completed", "error"}, url : {0} \cup Operations]

-----------------------------------------------------------------------------
(* The workers. *)

Goes(w, pc) == work' = [work EXCEPT ![w].pc = pc]
Ends(w, pc) ==
    work' = [work EXCEPT ![w] = [kind |-> @.kind, pc |-> pc, next |-> Nothing]]

\* Between its first and its last change.
Changing(w) == work[w].pc \in {"rebuild", "truncate", "fill", "keep", "read", "update"}
Overlaps(w) == overlapped' = (overlapped \/ \E other \in Workers \ {w} : Changing(other))

\* The worker w makes next what it is going to publish or write.
Prepares(w, kind, next, pc) ==
    /\ work' = [work EXCEPT ![w] = [kind |-> kind, pc |-> pc, next |-> next]]
    /\ Overlaps(w)

\* A corrupt file reads as an empty one.
SettingsRead == IF file.torn THEN 0 ELSE file.settings

fileVars == <<file, modified>>
runtimeVars == <<config, client>>
loginVars == <<port, login>>

\* Operations are numbered in the order they start.
Starts(o, kind) ==
    /\ work[o].pc = "idle" /\ kind \in Kinds
    /\ \A earlier \in {e \in Operations : e < o} : work[earlier].pc # "idle"

-----------------------------------------------------------------------------
(* The callbacks of the dashboard (main.go). *)

\* The tokens are those of main's cfg.
Save(o) ==
    LET next == [creds |-> config.main.creds, settings |-> o] IN
    /\ Starts(o, "save")
    /\ Prepares(o, "save", next, "rebuild")
    /\ config' = [config EXCEPT !.handler = next]
    /\ UNCHANGED <<fileVars, cache, client, watcher, issued, loginVars>>

\* Mutant: main's cfg is left as it was.
ReorderHandler(o) ==
    LET next == [config.handler EXCEPT !.settings = o] IN
    /\ Starts(o, "reorder")
    /\ Prepares(o, "reorder", next, "truncate")
    /\ config' = [config EXCEPT !.handler = next]
    /\ UNCHANGED <<fileVars, cache, client, watcher, issued, loginVars>>

\* The tokens are those of the handler's.
Reorder(o) ==
    LET next == [config.handler EXCEPT !.settings = o] IN
    /\ Starts(o, "reorder")
    /\ Prepares(o, "reorder", next, "truncate")
    /\ config' = [main |-> next, handler |-> next]
    /\ UNCHANGED <<fileVars, cache, client, watcher, issued, loginVars>>

\* A new registry, with a client of its own.
RebuildRouter(o) ==
    /\ work[o].pc = "rebuild"
    /\ client' = ClientOf(work[o].next.creds)
    /\ watcher' = [watcher EXCEPT !.current = FALSE]
    /\ config' = IF work[o].kind = "save" THEN [config EXCEPT !.main = work[o].next] ELSE config
    /\ Goes(o, "truncate")
    /\ UNCHANGED <<fileVars, cache, issued, loginVars, overlapped>>

-----------------------------------------------------------------------------
(* os.WriteFile, of persistConfig and SaveTokens. *)

Truncates(w) ==
    /\ work[w].pc = "truncate"
    /\ file' = [file EXCEPT !.torn = TRUE]
    /\ modified' = TRUE
    /\ Goes(w, "fill")
    /\ UNCHANGED <<cache, runtimeVars, watcher, issued, loginVars, overlapped>>

Fills(w) ==
    /\ work[w].pc = "fill"
    /\ file' = [torn |-> FALSE, creds |-> work[w].next.creds, settings |-> work[w].next.settings]
    /\ modified' = TRUE
    /\ IF w = Refresher THEN Goes(w, "update")
       ELSE IF work[w].kind = "dashboardLogin" THEN Goes(w, "keep") ELSE Ends(w, "over")
    /\ UNCHANGED <<cache, runtimeVars, watcher, issued, loginVars, overlapped>>

-----------------------------------------------------------------------------
(* Logins. *)

NewTokens(o) == [login |-> o, gen |-> 1, refresh |-> o]

\* cmdCodexLogin ends in SaveTokens, which reads the file and replaces its tokens.
CliLogin(o) ==
    /\ Starts(o, "cliLogin")
    /\ Prepares(o, "cliLogin", [creds |-> NewTokens(o), settings |-> SettingsRead], "truncate")
    /\ issued' = [issued EXCEPT ![o] = 1]
    /\ UNCHANGED <<fileVars, cache, runtimeVars, watcher, loginVars>>

\* StartCodexLogin: a login under way is offered again.
CheckPending(o) ==
    /\ Starts(o, "dashboardLogin")
    /\ work' = [work EXCEPT ![o] =
                   [kind |-> "dashboardLogin", next |-> Nothing,
                    pc |-> IF login.status = "pending" THEN "over" ELSE "start"]]
    /\ UNCHANGED <<fileVars, cache, runtimeVars, watcher, issued, loginVars, overlapped>>

\* A port in use goes unnoticed.
StartOAuthServer(o) ==
    /\ work[o].pc = "start"
    /\ port' = IF port = 0 THEN o ELSE port
    /\ Goes(o, "offer")
    /\ UNCHANGED <<fileVars, cache, runtimeVars, watcher, issued, login, overlapped>>

Offers(o) ==
    /\ work[o].pc = "offer"
    /\ login' = [status |-> "pending", url |-> o]
    /\ Goes(o, "listen")
    /\ UNCHANGED <<fileVars, cache, runtimeVars, watcher, issued, port, overlapped>>

PortLeft(o) == IF port = o THEN 0 ELSE port

\* The user follows the URL on offer, and the callback finds the login it
\* belongs to: access token and account of the handler's configuration are
\* replaced, the refresh token is not.
Publishes(o) ==
    LET next == [config.handler EXCEPT !.creds =
                    [login |-> o, gen |-> 1, refresh |-> config.handler.creds.refresh]] IN
    /\ work[o].pc = "listen" /\ port = o /\ login.url = o
    /\ Prepares(o, work[o].kind, next, "rebuild")
    /\ config' = [config EXCEPT !.handler = next]
    /\ issued' = [issued EXCEPT ![o] = 1]
    /\ port' = PortLeft(o)
    /\ UNCHANGED <<fileVars, cache, client, watcher, login>>

\* Mutant: a login that fails is not noted.
LoginGivenUp(o) ==
    /\ work[o].pc = "listen"
    /\ port' = PortLeft(o)
    /\ Goes(o, "over")
    /\ UNCHANGED <<fileVars, cache, runtimeVars, watcher, issued, login, overlapped>>

\* Mutant: a login that fails keeps the callback server.
LoginKeepsPort(o) ==
    /\ work[o].pc = "listen"
    /\ login' = [login EXCEPT !.status = "error"]
    /\ Goes(o, "over")
    /\ UNCHANGED <<fileVars, cache, runtimeVars, watcher, issued, port, overlapped>>

\* The user does not come, or the exchange of the code fails.
LoginFails(o) ==
    /\ work[o].pc = "listen"
    /\ port' = PortLeft(o)
    /\ login' = [login EXCEPT !.status = "error"]
    /\ Goes(o, "over")
    /\ UNCHANGED <<fileVars, cache, runtimeVars, watcher, issued, overlapped>>

LoginCompletes(o) ==
    /\ work[o].pc = "keep"
    /\ config' = [config EXCEPT !.main = work[o].next]
    /\ login' = [login EXCEPT !.status = "completed"]
    /\ Ends(o, "over")
    /\ UNCHANGED <<fileVars, cache, client, watcher, issued, port, overlapped>>

OperationStarts(o) == Save(o) \/ Reorder(o) \/ CliLogin(o) \/ CheckPending(o)

OperationStep(o) ==
    \/ RebuildRouter(o) \/ Truncates(o) \/ Fills(o) \/ StartOAuthServer(o) \/ Offers(o)
    \/ Publishes(o) \/ LoginFails(o) \/ LoginCompletes(o)

-----------------------------------------------------------------------------
(* The refresher. *)

\* The tokens it holds, next to what it is about to write.
Held == work[Refresher].next.creds

Holds(next, pc) == work' = [work EXCEPT ![Refresher] = [kind |-> "none", pc |-> pc, next |-> next]]

Tokens(creds) == [creds |-> creds, settings |-> 0]

\* LoadTokens; without tokens it sleeps and tries again.
Loads ==
    /\ work[Refresher].pc = "load"
    /\ \/ cache # NoCreds /\ Holds(Tokens(cache), "wait")
       \/ cache = NoCreds /\ ~file.torn /\ file.creds.login # 0 /\ Holds(Tokens(file.creds), "publish")
    /\ UNCHANGED <<fileVars, cache, runtimeVars, watcher, issued, loginVars, overlapped>>

Caches ==
    /\ work[Refresher].pc = "publish"
    /\ cache' = Held
    /\ Goes(Refresher, "wait")
    /\ UNCHANGED <<fileVars, runtimeVars, watcher, issued, loginVars, overlapped>>

\* The wait is over and RefreshTokens succeeds, which brings the next tokens of
\* the login that the refresh token is of, and may keep that refresh token.
Refreshed(refresh) == [login |-> refresh, gen |-> issued[refresh] + 1, refresh |-> refresh]

Refreshes ==
    LET from == Held.refresh IN
    /\ work[Refresher].pc = "wait"
    /\ from # 0 /\ issued[from] < MaxGeneration
    /\ Prepares(Refresher, "none", Tokens(Refreshed(from)), "read")
    /\ issued' = [issued EXCEPT ![from] = @ + 1]
    /\ UNCHANGED <<fileVars, cache, runtimeVars, watcher, loginVars>>

RefreshFails ==
    /\ work[Refresher].pc = "wait"
    /\ Ends(Refresher, "load")
    /\ UNCHANGED <<fileVars, cache, runtimeVars, watcher, issued, loginVars, overlapped>>

\* Mutant: the refresh token stays the one in the file.
ReadsRefreshToken ==
    LET next == [creds |-> [Held EXCEPT !.refresh = file.creds.refresh], settings |-> SettingsRead] IN
    /\ work[Refresher].pc = "read"
    /\ cache' = next.creds
    /\ Holds(next, "truncate")
    /\ UNCHANGED <<fileVars, runtimeVars, watcher, issued, loginVars, overlapped>>

\* SaveTokens up to its WriteFile.
ReadsSettings ==
    /\ work[Refresher].pc = "read"
    /\ cache' = Held
    /\ Holds([creds |-> Held, settings |-> SettingsRead], "truncate")
    /\ UNCHANGED <<fileVars, runtimeVars, watcher, issued, loginVars, overlapped>>

\* UpdateToken, on the client there is now.
UpdatesToken ==
    /\ work[Refresher].pc = "update"
    /\ client' = IF client.account = 0 THEN client
                 ELSE [client EXCEPT !.login = Held.login, !.gen = Held.gen]
    /\ Ends(Refresher, "load")
    /\ UNCHANGED <<fileVars, cache, config, watcher, issued, loginVars, overlapped>>

RefresherStep ==
    \/ Loads \/ Caches \/ ReadsSettings \/ Truncates(Refresher) \/ Fills(Refresher)
    \/ UpdatesToken

-----------------------------------------------------------------------------
(* The watcher. *)

unwatched == <<file, config, work, issued, loginVars, overlapped>>

Looks ==
    /\ watcher.pc = "idle" /\ modified
    /\ modified' = FALSE
    /\ watcher' = [watcher EXCEPT !.pc = "read"]
    /\ UNCHANGED <<unwatched, cache, client>>

\* What cannot be parsed, or is incomplete, is ignored.
Reads ==
    LET complete == ~file.torn /\ file.creds.login # 0 IN
    /\ watcher.pc = "read"
    /\ watcher' = IF complete THEN [watcher EXCEPT !.pc = "load", !.seen = file.creds]
                              ELSE [watcher EXCEPT !.pc = "idle"]
    /\ UNCHANGED <<unwatched, modified, cache, client>>

LoadsRouter ==
    /\ watcher.pc = "load"
    /\ watcher' = [watcher EXCEPT !.pc = "set", !.current = TRUE]
    /\ UNCHANGED <<unwatched, modified, cache, client>>

\* On a registry that has been replaced it is lost.
SetsCodex ==
    /\ watcher.pc = "set"
    /\ client' = IF watcher.current THEN ClientOf(watcher.seen) ELSE client
    /\ watcher' = [watcher EXCEPT !.pc = "invalidate", !.seen = NoCreds, !.current = FALSE]
    /\ UNCHANGED <<unwatched, modified, cache>>

Invalidates ==
    /\ watcher.pc = "invalidate"
    /\ cache' = NoCreds
    /\ watcher' = [watcher EXCEPT !.pc = "idle"]
    /\ UNCHANGED <<unwatched, modified, client>>

Unwatched == [pc |-> "idle", seen |-> NoCreds, current |-> FALSE]

WatcherStep == Looks \/ Reads \/ LoadsRouter \/ SetsCodex \/ Invalidates

-----------------------------------------------------------------------------
(* The proxy is stopped, or crashes, and cmdServe starts it again. *)

\* LoadTokens and, if they are about to expire, RefreshTokens and SaveTokens.
TokensAtStart ==
    {file.creds} \cup IF file.creds.refresh # 0 /\ issued[file.creds.refresh] < MaxGeneration
                        THEN {Refreshed(file.creds.refresh)} ELSE {}

OperationsEnd ==
    [o \in Operations |-> IF work[o].kind = "cliLogin" \/ work[o].pc = "idle" THEN work[o]
                          ELSE [kind |-> work[o].kind, pc |-> "over", next |-> Nothing]]

RefresherStarts(creds) ==
    [kind |-> "none", pc |-> IF creds.login = 0 THEN "off" ELSE "load",
     next |-> Nothing]

\* A torn file keeps the proxy from starting.
Restarts(o) ==
    /\ Starts(o, "restart") /\ ~file.torn
    /\ \E creds \in TokensAtStart :
          LET kept == [login |-> creds.login, gen |-> creds.gen, refresh |-> file.creds.refresh]
              now == [creds |-> kept, settings |-> file.settings] IN
          /\ file' = [file EXCEPT !.creds = creds]
          /\ issued' = [issued EXCEPT ![creds.login] = IF creds = file.creds THEN @ ELSE @ + 1]
          /\ cache' = creds
          /\ config' = [main |-> now, handler |-> now]
          /\ client' = ClientOf(creds)
          /\ work' = [w \in Workers |-> IF w = Refresher THEN RefresherStarts(creds)
                                        ELSE IF w = o THEN [kind |-> "restart", pc |-> "over", next |-> Nothing]
                                        ELSE OperationsEnd[w]]
    /\ modified' = FALSE
    /\ watcher' = Unwatched
    /\ port' = 0 /\ login' = [status |-> "idle", url |-> 0]
    /\ overlapped' = (overlapped \/ \E other \in Operations :
                                        work[other].kind = "cliLogin" /\ Changing(other))

-----------------------------------------------------------------------------

First(first) == [login |-> first, gen |-> first, refresh |-> first]

CredentialsInit ==
    \E first \in {0, 1} :
        LET now == [creds |-> First(first), settings |-> 1] IN
        /\ file = [torn |-> FALSE, creds |-> now.creds, settings |-> 1]
        /\ modified = FALSE
        /\ cache = now.creds
        /\ config = [main |-> now, handler |-> now]
        /\ client = ClientOf(now.creds)
        /\ watcher = Unwatched
        /\ work = [w \in Workers |->
                      IF w = Refresher THEN RefresherStarts(now.creds)
                      ELSE [kind |-> "none", pc |-> "idle", next |-> Nothing]]
        /\ issued = [l \in Logins |-> IF l = 1 THEN first ELSE 0]
        /\ port = 0
        /\ login = [status |-> "idle", url |-> 0]
        /\ overlapped = FALSE

CredentialsNext ==
    \/ \E o \in Operations : OperationStarts(o) \/ Restarts(o) \/ OperationStep(o)
    \/ RefresherStep \/ Refreshes \/ RefreshFails
    \/ WatcherStep

CredentialsSpec == CredentialsInit /\ [][CredentialsNext]_vars

\* What has begun goes on, the watcher's ticker ticks, and a login that nobody
\* completes times out.
FairCredentialsSpec ==
    /\ CredentialsSpec
    /\ \A o \in Operations : WF_vars(OperationStep(o))
    /\ WF_vars(RefresherStep) /\ WF_vars(WatcherStep)

-----------------------------------------------------------------------------
(* Properties *)

\* The client there is uses the tokens of the file, if there are any, and the
\* file has the settings in force.
Agreed ==
    /\ file.creds.login # 0 => client = ClientOf(file.creds)
    /\ {config.main.settings, config.handler.settings} = {file.settings}
    /\ ~file.torn

\* Whatever raced in the watcher, the cache and the registry, in the end
\* requests use the credentials and the settings of the file, unless two
\* operations wrote at once (server.go:273-280).
Settles == <>[](Agreed \/ overlapped)

\* A login that is shown as pending is completed or fails (web/server.go:386-440).
LoginResolves == login.status = "pending" ~> login.status # "pending"

\* Tokens are complete: nobody writes an access token of one account with the
\* refresh token of another, except after a login in the dashboard, which does.
RefreshTokenBelongs ==
    (\A o \in Operations : work[o].kind # "dashboardLogin") =>
        \A creds \in {file.creds, cache, config.main.creds, config.handler.creds} :
            creds.refresh = creds.login

-----------------------------------------------------------------------------
(* What the repository says of the program and the code does not do. *)

\* "Keep the existing web administration key and Codex tokens unless an explicit
\* CLI flow replaces them" (main.go:343-345), "the refresh goroutine reads the new
\* credentials from disk instead of using stale in-memory tokens" (server.go:288-289):
\* a login whose tokens are in the file is replaced by a later login only.
LoginKept ==
    [][~overlapped /\ file'.creds.login # file.creds.login =>
          \E o \in Operations : work[o].pc = "fill" /\ file'.creds.login = o]_vars
===============================================================================
