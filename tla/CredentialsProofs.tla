------------------------- MODULE CredentialsProofs -------------------------
(***************************************************************************)
(* Theorems about Credentials, for any number of operations, generations   *)
(* and kinds: the types, and that without a login in the dashboard every   *)
(* copy of the tokens has the refresh token of its own login.              *)
(*                                                                         *)
(* The second is not inductive alone: what a worker is about to publish or *)
(* write, and what the watcher has read, has to be whole as well, and only *)
(* a login in the dashboard may be at the steps of one (Whole).            *)
(***************************************************************************)
EXTENDS Credentials, TLAPS

\* How a worker goes on.
LEMMA GoesWork ==
    ASSUME CredentialsTypeOK, NEW w \in Workers, NEW pc \in Pcs, Goes(w, pc)
    PROVE  /\ work' \in [Workers -> Work]
           /\ work'[w] = [kind |-> work[w].kind, pc |-> pc, next |-> work[w].next]
           /\ \A x \in Workers \ {w} : work'[x] = work[x]
  <1> DEFINE now == [kind |-> work[w].kind, pc |-> pc, next |-> work[w].next]
  <1>1. work \in [Workers -> Work] /\ work[w] \in Work
    BY DEF CredentialsTypeOK
  <1>2. now \in Work
    BY <1>1 DEF Work
  <1>3. work' = [work EXCEPT ![w] = now]
    <2>1. work' = [work EXCEPT ![w] = [work[w] EXCEPT !.pc = pc]]
      BY DEF Goes
    <2>2. [work[w] EXCEPT !.pc = pc] = now
      BY <1>1 DEF Work
    <2>3. QED
      BY <2>1, <2>2
  <1> HIDE DEF now
  <1>4. /\ work' \in [Workers -> Work]
        /\ work'[w] = now
        /\ \A x \in Workers \ {w} : work'[x] = work[x]
    BY <1>1, <1>2, <1>3
  <1>5. QED
    BY <1>4 DEF now

LEMMA EndsWork ==
    ASSUME CredentialsTypeOK, NEW w \in Workers, NEW pc \in Pcs, Ends(w, pc)
    PROVE  /\ work' \in [Workers -> Work]
           /\ work'[w] = [kind |-> work[w].kind, pc |-> pc, next |-> Nothing]
           /\ \A x \in Workers \ {w} : work'[x] = work[x]
  <1> DEFINE now == [kind |-> work[w].kind, pc |-> pc, next |-> Nothing]
  <1>1. Nothing \in Configs
    BY BoundsAssumption DEF Nothing, NoCreds, Configs, Creds, Logins
  <1>2. work \in [Workers -> Work] /\ work[w] \in Work
    BY DEF CredentialsTypeOK
  <1>3. now \in Work
    BY <1>1, <1>2 DEF Work
  <1>4. work' = [work EXCEPT ![w] = now]
    BY DEF Ends
  <1> HIDE DEF now
  <1>5. /\ work' \in [Workers -> Work]
        /\ work'[w] = now
        /\ \A x \in Workers \ {w} : work'[x] = work[x]
    BY <1>2, <1>3, <1>4
  <1>6. QED
    BY <1>5 DEF now

LEMMA PreparesWork ==
    ASSUME CredentialsTypeOK, NEW w \in Workers, NEW pc \in Pcs, NEW kind \in Kinds \cup {"none"},
           NEW next \in Configs, Prepares(w, kind, next, pc)
    PROVE  /\ work' \in [Workers -> Work]
           /\ work'[w] = [kind |-> kind, pc |-> pc, next |-> next]
           /\ \A x \in Workers \ {w} : work'[x] = work[x]
           /\ overlapped' \in BOOLEAN
  <1>1. work \in [Workers -> Work] /\ [kind |-> kind, pc |-> pc, next |-> next] \in Work
    BY DEF CredentialsTypeOK, Work
  <1>2. work' = [work EXCEPT ![w] = [kind |-> kind, pc |-> pc, next |-> next]]
    BY DEF Prepares
  <1>3. overlapped' \in BOOLEAN
    BY DEF CredentialsTypeOK, Prepares, Overlaps
  <1>4. QED
    BY <1>1, <1>2, <1>3

LEMMA HoldsWork ==
    ASSUME CredentialsTypeOK, NEW pc \in Pcs, NEW next \in Configs, Holds(next, pc)
    PROVE  /\ work' \in [Workers -> Work]
           /\ work'[Refresher] = [kind |-> "none", pc |-> pc, next |-> next]
           /\ \A x \in Workers \ {Refresher} : work'[x] = work[x]
  <1>1. work \in [Workers -> Work] /\ [kind |-> "none", pc |-> pc, next |-> next] \in Work
    BY DEF CredentialsTypeOK, Work
  <1>2. work' = [work EXCEPT ![Refresher] = [kind |-> "none", pc |-> pc, next |-> next]]
    BY DEF Holds
  <1>3. QED
    BY <1>1, <1>2 DEF Workers

\* The tokens a login or a refresh brings, and the sets they are of.
LEMMA CredsTypes ==
    ASSUME CredentialsTypeOK
    PROVE  /\ NoCreds \in Creds /\ Nothing \in Configs
           /\ \A o \in Operations : NewTokens(o) \in Creds /\ o \in Logins
           /\ \A creds \in Creds : Tokens(creds) \in Configs /\ ClientOf(creds) \in Clients
           /\ \A l \in Logins : issued[l] < MaxGeneration => Refreshed(l) \in Creds
           /\ SettingsRead \in Logins
           /\ Held \in Creds
  <1>1. 0 \in Logins /\ 1 \in Logins /\ Operations \subseteq Logins
    BY DEF Logins
  <1>2. 0 \in 0..MaxGeneration /\ 1 \in 0..MaxGeneration
    BY BoundsAssumption
  <1>3. NoCreds \in Creds /\ Nothing \in Configs
    BY <1>1, <1>2 DEF NoCreds, Creds, Nothing, Configs
  <1>4. \A o \in Operations : NewTokens(o) \in Creds /\ o \in Logins
    BY <1>1, <1>2 DEF NewTokens, Creds
  <1>5. \A creds \in Creds : Tokens(creds) \in Configs /\ ClientOf(creds) \in Clients
    BY <1>1 DEF Tokens, Configs, ClientOf, Clients, Creds
  <1>6. ASSUME NEW l \in Logins, issued[l] < MaxGeneration
        PROVE  Refreshed(l) \in Creds
    <2>1. issued[l] \in 0..MaxGeneration
      BY DEF CredentialsTypeOK
    <2>2. issued[l] + 1 \in 0..MaxGeneration
      BY <1>6, <2>1, BoundsAssumption
    <2>3. QED
      BY <2>2 DEF Refreshed, Creds
  <1>7. SettingsRead \in Logins
    BY <1>1 DEF SettingsRead, CredentialsTypeOK
  <1>8. Held \in Creds
    BY DEF Held, CredentialsTypeOK, Work, Configs, Workers
  <1>9. QED
    BY <1>3, <1>4, <1>5, <1>6, <1>7, <1>8

\* The port stays with a login that listens, whatever another worker does.
LEMMA PortKept ==
    ASSUME CredentialsTypeOK, NEW w \in Workers, port' = port,
           work[w].pc \notin {"offer", "listen"},
           \A x \in Workers \ {w} : work'[x] = work[x]
    PROVE  port' \in {0} \cup {o \in Operations : work'[o].pc \in {"offer", "listen"}}
  BY DEF CredentialsTypeOK, Workers

-----------------------------------------------------------------------------
(* Types. *)

\* Whoever writes the file.
LEMMA TruncatesType ==
    ASSUME CredentialsTypeOK, NEW w \in Workers, Truncates(w)
    PROVE  CredentialsTypeOK'
  <1>1. Goes(w, "fill") /\ "fill" \in Pcs /\ work[w].pc = "truncate"
    BY DEF Truncates, Pcs
  <1>2. /\ work' \in [Workers -> Work]
        /\ \A x \in Workers \ {w} : work'[x] = work[x]
    BY <1>1, GoesWork
  <1>3. file' \in [torn : BOOLEAN, creds : Creds, settings : Logins]
    BY DEF Truncates, CredentialsTypeOK
  <1>4. port' \in {0} \cup {x \in Operations : work'[x].pc \in {"offer", "listen"}}
    BY <1>1, <1>2, PortKept DEF Truncates, loginVars
  <1>5. QED
    BY <1>2, <1>3, <1>4 DEF Truncates, CredentialsTypeOK, loginVars, runtimeVars

LEMMA FillsWork ==
    ASSUME CredentialsTypeOK, NEW w \in Workers, Fills(w)
    PROVE  /\ work' \in [Workers -> Work]
           /\ work'[w].kind = work[w].kind
           /\ \/ work'[w].pc \in {"update", "over"}
              \/ work'[w].pc = "keep" /\ work[w].kind = "dashboardLogin"
           /\ work'[w].next \in {work[w].next, Nothing}
           /\ \A x \in Workers \ {w} : work'[x] = work[x]
  <1>1. {"update", "keep", "over"} \subseteq Pcs
    BY DEF Pcs
  <1>2. \/ Goes(w, "update") \/ Ends(w, "over")
        \/ work[w].kind = "dashboardLogin" /\ Goes(w, "keep")
    BY DEF Fills
  <1>3. CASE Goes(w, "update")
    <2>1. /\ work' \in [Workers -> Work]
          /\ work'[w] = [kind |-> work[w].kind, pc |-> "update", next |-> work[w].next]
          /\ \A x \in Workers \ {w} : work'[x] = work[x]
      BY <1>1, <1>3, GoesWork
    <2>2. QED
      BY <2>1
  <1>4. CASE Ends(w, "over")
    <2>1. /\ work' \in [Workers -> Work]
          /\ work'[w] = [kind |-> work[w].kind, pc |-> "over", next |-> Nothing]
          /\ \A x \in Workers \ {w} : work'[x] = work[x]
      BY <1>1, <1>4, EndsWork
    <2>2. QED
      BY <2>1
  <1>5. CASE work[w].kind = "dashboardLogin" /\ Goes(w, "keep")
    <2>1. /\ work' \in [Workers -> Work]
          /\ work'[w] = [kind |-> work[w].kind, pc |-> "keep", next |-> work[w].next]
          /\ \A x \in Workers \ {w} : work'[x] = work[x]
      BY <1>1, <1>5, GoesWork
    <2>2. QED
      BY <2>1, <1>5
  <1>6. QED
    BY <1>2, <1>3, <1>4, <1>5

LEMMA FillsType ==
    ASSUME CredentialsTypeOK, NEW w \in Workers, Fills(w)
    PROVE  CredentialsTypeOK'
  <1>1. /\ work' \in [Workers -> Work]
        /\ \A x \in Workers \ {w} : work'[x] = work[x]
    BY FillsWork
  <1>2. file' \in [torn : BOOLEAN, creds : Creds, settings : Logins]
    BY DEF Fills, CredentialsTypeOK, Work, Configs
  <1>3. port' \in {0} \cup {x \in Operations : work'[x].pc \in {"offer", "listen"}}
    BY <1>1, PortKept DEF Fills, loginVars
  <1>4. QED
    BY <1>1, <1>2, <1>3 DEF Fills, CredentialsTypeOK, loginVars, runtimeVars

\* Every step of an operation keeps the types.
LEMMA OperationStartsType ==
    ASSUME CredentialsTypeOK, NEW o \in Operations, OperationStarts(o)
    PROVE  CredentialsTypeOK'
  <1>0. o \in Workers
    BY DEF Workers
  <1>1. CASE Save(o)
    <2> DEFINE next == [creds |-> config.main.creds, settings |-> o]
    <2>1. next \in Configs
      BY CredsTypes DEF CredentialsTypeOK, Configs
    <2>2. Prepares(o, "save", next, "rebuild") /\ "save" \in Kinds /\ "rebuild" \in Pcs
          /\ work[o].pc = "idle"
      BY <1>1 DEF Save, Starts, Pcs
    <2>3. /\ work' \in [Workers -> Work] /\ overlapped' \in BOOLEAN
          /\ \A x \in Workers \ {o} : work'[x] = work[x]
      BY <1>0, <2>1, <2>2, PreparesWork
    <2>4. config' \in [main : Configs, handler : Configs]
      BY <1>1, <2>1 DEF Save, CredentialsTypeOK
    <2>5. port' \in {0} \cup {x \in Operations : work'[x].pc \in {"offer", "listen"}}
      BY <1>0, <1>1, <2>2, <2>3, PortKept DEF Save, loginVars
    <2>6. QED
      BY <1>1, <2>3, <2>4, <2>5 DEF Save, CredentialsTypeOK, fileVars, loginVars
  <1>2. CASE Reorder(o)
    <2> DEFINE next == [config.handler EXCEPT !.settings = o]
    <2>1. next \in Configs
      BY CredsTypes DEF CredentialsTypeOK, Configs
    <2>2. Prepares(o, "reorder", next, "truncate") /\ "reorder" \in Kinds /\ "truncate" \in Pcs
          /\ work[o].pc = "idle"
      BY <1>2 DEF Reorder, Starts, Pcs
    <2>3. /\ work' \in [Workers -> Work] /\ overlapped' \in BOOLEAN
          /\ \A x \in Workers \ {o} : work'[x] = work[x]
      BY <1>0, <2>1, <2>2, PreparesWork
    <2>4. config' \in [main : Configs, handler : Configs]
      BY <1>2, <2>1 DEF Reorder
    <2>5. port' \in {0} \cup {x \in Operations : work'[x].pc \in {"offer", "listen"}}
      BY <1>0, <1>2, <2>2, <2>3, PortKept DEF Reorder, loginVars
    <2>6. QED
      BY <1>2, <2>3, <2>4, <2>5 DEF Reorder, CredentialsTypeOK, fileVars, loginVars
  <1>3. CASE CliLogin(o)
    <2> DEFINE next == [creds |-> NewTokens(o), settings |-> SettingsRead]
    <2>1. next \in Configs
      BY CredsTypes DEF Configs
    <2>2. Prepares(o, "cliLogin", next, "truncate") /\ "cliLogin" \in Kinds /\ "truncate" \in Pcs
          /\ work[o].pc = "idle"
      BY <1>3 DEF CliLogin, Starts, Pcs
    <2>3. /\ work' \in [Workers -> Work] /\ overlapped' \in BOOLEAN
          /\ \A x \in Workers \ {o} : work'[x] = work[x]
      BY <1>0, <2>1, <2>2, PreparesWork
    <2>4. issued' \in [Logins -> 0..MaxGeneration]
      BY <1>3, BoundsAssumption, CredsTypes DEF CliLogin, CredentialsTypeOK
    <2>5. port' \in {0} \cup {x \in Operations : work'[x].pc \in {"offer", "listen"}}
      BY <1>0, <1>3, <2>2, <2>3, PortKept DEF CliLogin, loginVars
    <2>6. QED
      BY <1>3, <2>3, <2>4, <2>5 DEF CliLogin, CredentialsTypeOK, fileVars, loginVars, runtimeVars
  <1>4. CASE CheckPending(o)
    <2> DEFINE pc == IF login.status = "pending" THEN "over" ELSE "start"
               here == [kind |-> "dashboardLogin", next |-> Nothing, pc |-> pc]
    <2>1. here \in Work /\ work[o].pc = "idle"
      BY <1>4, CredsTypes DEF CheckPending, Starts, Work, Pcs
    <2>2. work' = [work EXCEPT ![o] = here]
      BY <1>4 DEF CheckPending
    <2>3. /\ work' \in [Workers -> Work]
          /\ \A x \in Workers \ {o} : work'[x] = work[x]
      BY <2>1, <2>2 DEF CredentialsTypeOK
    <2>4. port' \in {0} \cup {x \in Operations : work'[x].pc \in {"offer", "listen"}}
      BY <1>0, <1>4, <2>1, <2>3, PortKept DEF CheckPending, loginVars
    <2>5. QED
      BY <1>4, <2>3, <2>4 DEF CheckPending, CredentialsTypeOK, fileVars, loginVars, runtimeVars
  <1>5. QED
    BY <1>1, <1>2, <1>3, <1>4 DEF OperationStarts

LEMMA OperationStepType ==
    ASSUME CredentialsTypeOK, NEW o \in Operations, OperationStep(o)
    PROVE  CredentialsTypeOK'
  <1>0. o \in Workers /\ o # Refresher
    BY OperationsAssumption DEF Workers
  <1>1. CASE RebuildRouter(o)
    <2>1. Goes(o, "truncate") /\ "truncate" \in Pcs /\ work[o].pc = "rebuild"
      BY <1>1 DEF RebuildRouter, Pcs
    <2>2. /\ work' \in [Workers -> Work]
          /\ \A x \in Workers \ {o} : work'[x] = work[x]
      BY <1>0, <2>1, GoesWork
    <2>3. work[o].next \in Configs /\ work[o].next.creds \in Creds
      BY <1>0 DEF CredentialsTypeOK, Work, Configs
    <2>4. client' \in Clients
      BY <1>1, <2>3, CredsTypes DEF RebuildRouter
    <2>5. config' \in [main : Configs, handler : Configs]
      BY <1>1, <2>3 DEF RebuildRouter, CredentialsTypeOK
    <2>6. port' \in {0} \cup {x \in Operations : work'[x].pc \in {"offer", "listen"}}
      BY <1>0, <1>1, <2>1, <2>2, PortKept DEF RebuildRouter, loginVars
    <2>7. QED
      BY <1>1, <2>2, <2>4, <2>5, <2>6 DEF RebuildRouter, CredentialsTypeOK, fileVars, loginVars
  <1>2. CASE Truncates(o)
    BY <1>0, <1>2, TruncatesType
  <1>3. CASE Fills(o)
    BY <1>0, <1>3, FillsType
  <1>4. CASE StartOAuthServer(o)
    <2>1. Goes(o, "offer") /\ "offer" \in Pcs /\ work[o].pc = "start"
      BY <1>4 DEF StartOAuthServer, Pcs
    <2>2. /\ work' \in [Workers -> Work]
          /\ work'[o] = [kind |-> work[o].kind, pc |-> "offer", next |-> work[o].next]
          /\ \A x \in Workers \ {o} : work'[x] = work[x]
      BY <1>0, <2>1, GoesWork
    <2>3. port' \in {0} \cup {x \in Operations : work'[x].pc \in {"offer", "listen"}}
      BY <1>4, <2>1, <2>2 DEF StartOAuthServer, CredentialsTypeOK, Workers
    <2>4. QED
      BY <1>4, <2>2, <2>3 DEF StartOAuthServer, CredentialsTypeOK, fileVars, runtimeVars
  <1>5. CASE Offers(o)
    <2>1. Goes(o, "listen") /\ "listen" \in Pcs /\ work[o].pc = "offer"
      BY <1>5 DEF Offers, Pcs
    <2>2. /\ work' \in [Workers -> Work]
          /\ work'[o] = [kind |-> work[o].kind, pc |-> "listen", next |-> work[o].next]
          /\ \A x \in Workers \ {o} : work'[x] = work[x]
      BY <1>0, <2>1, GoesWork
    <2>3. port' \in {0} \cup {x \in Operations : work'[x].pc \in {"offer", "listen"}}
      BY <1>5, <2>1, <2>2 DEF Offers, CredentialsTypeOK, Workers
    <2>4. QED
      BY <1>5, <2>2, <2>3 DEF Offers, CredentialsTypeOK, fileVars, runtimeVars
  <1>6. CASE Publishes(o)
    <2> DEFINE creds == [login |-> o, gen |-> 1, refresh |-> config.handler.creds.refresh]
               next == [config.handler EXCEPT !.creds = creds]
    <2>1. creds \in Creds /\ next \in Configs
      <3>1. config.handler.creds.refresh \in Logins /\ o \in Logins
        BY CredsTypes DEF CredentialsTypeOK, Configs, Creds
      <3>2. creds \in Creds
        BY <3>1, BoundsAssumption DEF Creds
      <3>3. QED
        BY <3>2 DEF CredentialsTypeOK, Configs
    <2>2. Prepares(o, work[o].kind, next, "rebuild") /\ "rebuild" \in Pcs
      BY <1>6 DEF Publishes, Pcs
    <2>3. work[o].kind \in Kinds \cup {"none"}
      BY <1>0 DEF CredentialsTypeOK, Work
    <2>4. /\ work' \in [Workers -> Work] /\ overlapped' \in BOOLEAN
          /\ \A x \in Workers \ {o} : work'[x] = work[x]
      BY <1>0, <2>1, <2>2, <2>3, PreparesWork
    <2>5. config' \in [main : Configs, handler : Configs]
      BY <1>6, <2>1 DEF Publishes, CredentialsTypeOK
    <2>6. issued' \in [Logins -> 0..MaxGeneration]
      BY <1>6, BoundsAssumption, CredsTypes DEF Publishes, CredentialsTypeOK
    <2>7. port' = 0
      BY <1>6 DEF Publishes, PortLeft
    <2>8. QED
      BY <1>6, <2>4, <2>5, <2>6, <2>7 DEF Publishes, CredentialsTypeOK, fileVars
  <1>7. CASE LoginFails(o)
    <2>1. Goes(o, "over") /\ "over" \in Pcs
      BY <1>7 DEF LoginFails, Pcs
    <2>2. /\ work' \in [Workers -> Work]
          /\ \A x \in Workers \ {o} : work'[x] = work[x]
      BY <1>0, <2>1, GoesWork
    <2>3. port' \in {0} \cup {x \in Operations : work'[x].pc \in {"offer", "listen"}}
      BY <1>7, <2>2 DEF LoginFails, PortLeft, CredentialsTypeOK, Workers
    <2>4. QED
      BY <1>7, <2>2, <2>3 DEF LoginFails, CredentialsTypeOK, fileVars, runtimeVars
  <1>8. CASE LoginCompletes(o)
    <2>1. Ends(o, "over") /\ "over" \in Pcs /\ work[o].pc = "keep"
      BY <1>8 DEF LoginCompletes, Pcs
    <2>2. /\ work' \in [Workers -> Work]
          /\ \A x \in Workers \ {o} : work'[x] = work[x]
      BY <1>0, <2>1, EndsWork
    <2>3. config' \in [main : Configs, handler : Configs]
      BY <1>0, <1>8 DEF LoginCompletes, CredentialsTypeOK, Work
    <2>4. port' \in {0} \cup {x \in Operations : work'[x].pc \in {"offer", "listen"}}
      BY <1>0, <1>8, <2>1, <2>2, PortKept DEF LoginCompletes
    <2>5. QED
      BY <1>8, <2>2, <2>3, <2>4 DEF LoginCompletes, CredentialsTypeOK, fileVars
  <1>9. QED
    BY <1>1, <1>2, <1>3, <1>4, <1>5, <1>6, <1>7, <1>8 DEF OperationStep

LEMMA RefresherType ==
    ASSUME CredentialsTypeOK, RefresherStep \/ Refreshes \/ RefreshFails
    PROVE  CredentialsTypeOK'
  <1>0. Refresher \in Workers /\ {"load", "publish", "wait", "read", "truncate"} \subseteq Pcs
    BY DEF Workers, Pcs
  <1>1. CASE Loads
    <2>1. PICK creds \in {cache, file.creds}, pc \in {"wait", "publish"} : Holds(Tokens(creds), pc)
      BY <1>1 DEF Loads
    <2>2. Tokens(creds) \in Configs /\ pc \in Pcs /\ work[Refresher].pc = "load"
      BY <1>0, <1>1, CredsTypes DEF Loads, CredentialsTypeOK
    <2>3. /\ work' \in [Workers -> Work]
          /\ \A x \in Workers \ {Refresher} : work'[x] = work[x]
      BY <2>1, <2>2, HoldsWork
    <2>4. port' \in {0} \cup {x \in Operations : work'[x].pc \in {"offer", "listen"}}
      BY <1>0, <1>1, <2>2, <2>3, PortKept DEF Loads, loginVars
    <2>5. QED
      BY <1>1, <2>3, <2>4 DEF Loads, CredentialsTypeOK, fileVars, loginVars, runtimeVars
  <1>2. CASE Caches
    <2>1. Goes(Refresher, "wait") /\ work[Refresher].pc = "publish"
      BY <1>2 DEF Caches
    <2>2. /\ work' \in [Workers -> Work]
          /\ \A x \in Workers \ {Refresher} : work'[x] = work[x]
      BY <1>0, <2>1, GoesWork
    <2>3. port' \in {0} \cup {x \in Operations : work'[x].pc \in {"offer", "listen"}}
      BY <1>0, <1>2, <2>1, <2>2, PortKept DEF Caches, loginVars
    <2>4. cache' \in Creds
      BY <1>2, CredsTypes DEF Caches
    <2>5. QED
      BY <1>2, <2>2, <2>3, <2>4 DEF Caches, CredentialsTypeOK, fileVars, loginVars, runtimeVars
  <1>3. CASE ReadsSettings
    <2> DEFINE next == [creds |-> Held, settings |-> SettingsRead]
    <2>1. Holds(next, "truncate") /\ work[Refresher].pc = "read" /\ next \in Configs
      BY <1>3, CredsTypes DEF ReadsSettings, Configs
    <2>2. /\ work' \in [Workers -> Work]
          /\ \A x \in Workers \ {Refresher} : work'[x] = work[x]
      BY <1>0, <2>1, HoldsWork
    <2>3. port' \in {0} \cup {x \in Operations : work'[x].pc \in {"offer", "listen"}}
      BY <1>0, <1>3, <2>1, <2>2, PortKept DEF ReadsSettings, loginVars
    <2>4. cache' \in Creds
      BY <1>3, CredsTypes DEF ReadsSettings
    <2>5. QED
      BY <1>3, <2>2, <2>3, <2>4 DEF ReadsSettings, CredentialsTypeOK, fileVars, loginVars, runtimeVars
  <1>4. CASE UpdatesToken
    <2>1. Ends(Refresher, "load") /\ work[Refresher].pc = "update"
      BY <1>4 DEF UpdatesToken
    <2>2. /\ work' \in [Workers -> Work]
          /\ \A x \in Workers \ {Refresher} : work'[x] = work[x]
      BY <1>0, <2>1, EndsWork
    <2>3. port' \in {0} \cup {x \in Operations : work'[x].pc \in {"offer", "listen"}}
      BY <1>0, <1>4, <2>1, <2>2, PortKept DEF UpdatesToken, loginVars
    <2>4. client' \in Clients
      <3>1. Held.login \in Logins /\ Held.gen \in 0..MaxGeneration
        BY CredsTypes DEF Creds
      <3>2. QED
        BY <1>4, <3>1 DEF UpdatesToken, CredentialsTypeOK, Clients
    <2>5. QED
      BY <1>4, <2>2, <2>3, <2>4 DEF UpdatesToken, CredentialsTypeOK, fileVars, loginVars
  <1>5. CASE Refreshes
    <2> DEFINE from == Held.refresh
               next == Tokens(Refreshed(from))
    <2>1. from \in Logins /\ issued[from] < MaxGeneration
      BY <1>5, CredsTypes DEF Refreshes, Creds
    <2>2. next \in Configs
      BY <2>1, CredsTypes
    <2>3. Prepares(Refresher, "none", next, "read") /\ work[Refresher].pc = "wait"
      BY <1>5 DEF Refreshes
    <2>4. /\ work' \in [Workers -> Work] /\ overlapped' \in BOOLEAN
          /\ \A x \in Workers \ {Refresher} : work'[x] = work[x]
      BY <1>0, <2>2, <2>3, PreparesWork
    <2>5. issued' \in [Logins -> 0..MaxGeneration]
      <3>1. issued[from] + 1 \in 0..MaxGeneration
        BY <2>1, BoundsAssumption DEF CredentialsTypeOK
      <3>2. QED
        BY <1>5, <2>1, <3>1 DEF Refreshes, CredentialsTypeOK
    <2>6. port' \in {0} \cup {x \in Operations : work'[x].pc \in {"offer", "listen"}}
      BY <1>0, <1>5, <2>3, <2>4, PortKept DEF Refreshes, loginVars
    <2>7. QED
      BY <1>5, <2>4, <2>5, <2>6 DEF Refreshes, CredentialsTypeOK, fileVars, loginVars, runtimeVars
  <1>6. CASE RefreshFails
    <2>1. Ends(Refresher, "load") /\ work[Refresher].pc = "wait"
      BY <1>6 DEF RefreshFails
    <2>2. /\ work' \in [Workers -> Work]
          /\ \A x \in Workers \ {Refresher} : work'[x] = work[x]
      BY <1>0, <2>1, EndsWork
    <2>3. port' \in {0} \cup {x \in Operations : work'[x].pc \in {"offer", "listen"}}
      BY <1>0, <1>6, <2>1, <2>2, PortKept DEF RefreshFails, loginVars
    <2>4. QED
      BY <1>6, <2>2, <2>3 DEF RefreshFails, CredentialsTypeOK, fileVars, loginVars, runtimeVars
  <1>7. QED
    BY <1>0, <1>1, <1>2, <1>3, <1>4, <1>5, <1>6, TruncatesType, FillsType DEF RefresherStep

LEMMA WatcherType ==
    ASSUME CredentialsTypeOK, WatcherStep
    PROVE  CredentialsTypeOK'
  <1>1. /\ file' = file /\ config' = config /\ work' = work /\ issued' = issued
        /\ port' = port /\ login' = login /\ overlapped' = overlapped
    BY DEF WatcherStep, Looks, Reads, LoadsRouter, SetsCodex, Invalidates, unwatched, loginVars
  <1>2. watcher' \in [pc : {"idle", "read", "load", "set", "invalidate"}, seen : Creds,
                      current : BOOLEAN]
    BY CredsTypes DEF WatcherStep, Looks, Reads, LoadsRouter, SetsCodex, Invalidates,
                      CredentialsTypeOK
  <1>3. modified' \in BOOLEAN /\ cache' \in Creds /\ client' \in Clients
    BY CredsTypes DEF WatcherStep, Looks, Reads, LoadsRouter, SetsCodex, Invalidates,
                      CredentialsTypeOK
  <1>4. QED
    BY <1>1, <1>2, <1>3 DEF CredentialsTypeOK

\* What the refresher and the operations are after a start.
LEMMA StartTypes ==
    ASSUME NEW creds \in Creds, CredentialsTypeOK
    PROVE  /\ RefresherStarts(creds) \in Work
           /\ OperationsEnd \in [Operations -> Work]
           /\ Unwatched \in [pc : {"idle", "read", "load", "set", "invalidate"}, seen : Creds,
                             current : BOOLEAN]
  <1>1. {"off", "load", "over"} \subseteq Pcs
    BY DEF Pcs
  <1>2. RefresherStarts(creds) \in Work
    BY <1>1, CredsTypes DEF RefresherStarts, Work
  <1>3. Unwatched \in [pc : {"idle", "read", "load", "set", "invalidate"}, seen : Creds,
                       current : BOOLEAN]
    BY CredsTypes DEF Unwatched
  <1>4. ASSUME NEW o \in Operations
        PROVE  [kind |-> work[o].kind, pc |-> "over", next |-> Nothing] \in Work /\ work[o] \in Work
    BY <1>1, CredsTypes DEF CredentialsTypeOK, Work, Workers
  <1>5. OperationsEnd \in [Operations -> Work]
    BY <1>4 DEF OperationsEnd
  <1>6. QED
    BY <1>2, <1>3, <1>5

LEMMA RestartsType ==
    ASSUME CredentialsTypeOK, NEW o \in Operations, Restarts(o)
    PROVE  CredentialsTypeOK'
  <1> DEFINE kept(creds) == [login |-> creds.login, gen |-> creds.gen,
                             refresh |-> file.creds.refresh]
             now(creds) == [creds |-> kept(creds), settings |-> file.settings]
             works(creds) == [w \in Workers |->
                                 IF w = Refresher THEN RefresherStarts(creds)
                                 ELSE IF w = o THEN [kind |-> "restart", pc |-> "over", next |-> Nothing]
                                 ELSE OperationsEnd[w]]
  <1>1. PICK creds \in TokensAtStart :
            /\ file' = [file EXCEPT !.creds = creds]
            /\ issued' = [issued EXCEPT ![creds.login] = IF creds = file.creds THEN @ ELSE @ + 1]
            /\ cache' = creds
            /\ config' = [main |-> now(creds), handler |-> now(creds)]
            /\ client' = ClientOf(creds)
            /\ work' = works(creds)
    BY DEF Restarts
  <1>2. file.creds \in Creds /\ file.settings \in Logins
    BY DEF CredentialsTypeOK
  <1>3. file.creds.refresh \in Logins /\ file.creds.login \in Logins
    BY <1>2 DEF Creds
  <1>4. creds \in Creds /\ creds.login \in Logins
    BY <1>1, <1>2, <1>3, CredsTypes DEF TokensAtStart, Creds
  <1>5. creds # file.creds => issued[creds.login] < MaxGeneration
    BY <1>1 DEF TokensAtStart, Refreshed
  <1>6. issued' \in [Logins -> 0..MaxGeneration]
    <2>1. issued[creds.login] \in 0..MaxGeneration
      BY <1>4 DEF CredentialsTypeOK
    <2>2. creds # file.creds => issued[creds.login] + 1 \in 0..MaxGeneration
      BY <1>5, <2>1, BoundsAssumption
    <2>3. QED
      BY <1>1, <1>4, <2>1, <2>2 DEF CredentialsTypeOK
  <1>7. kept(creds) \in Creds
    BY <1>3, <1>4 DEF Creds
  <1>8. config' \in [main : Configs, handler : Configs]
    BY <1>1, <1>2, <1>7 DEF Configs
  <1>9. work' \in [Workers -> Work]
    <2>1. [kind |-> "restart", pc |-> "over", next |-> Nothing] \in Work
      BY CredsTypes DEF Restarts, Starts, Work, Pcs
    <2>2. QED
      BY <1>1, <1>4, <2>1, StartTypes DEF Workers
  <1>10. /\ modified' \in BOOLEAN /\ overlapped' \in BOOLEAN
         /\ port' = 0 /\ login' = [status |-> "idle", url |-> 0]
         /\ watcher' = Unwatched
    BY DEF Restarts, CredentialsTypeOK
  <1>11. file' \in [torn : BOOLEAN, creds : Creds, settings : Logins]
    BY <1>1, <1>4 DEF CredentialsTypeOK
  <1>12. client' \in Clients /\ cache' \in Creds
    BY <1>1, <1>4, CredsTypes
  <1>13. QED
    BY <1>4, <1>6, <1>8, <1>9, <1>10, <1>11, <1>12, StartTypes DEF CredentialsTypeOK

LEMMA InitType == CredentialsInit => CredentialsTypeOK
  <1> SUFFICES ASSUME CredentialsInit PROVE CredentialsTypeOK
    OBVIOUS
  <1>1. PICK first \in {0, 1} :
            LET now == [creds |-> First(first), settings |-> 1] IN
            /\ file = [torn |-> FALSE, creds |-> now.creds, settings |-> 1]
            /\ modified = FALSE
            /\ cache = now.creds
            /\ config = [main |-> now, handler |-> now]
            /\ client = ClientOf(now.creds)
            /\ watcher = Unwatched
            /\ work = [w \in Workers |->
                          IF w = Refresher THEN RefresherStarts(now.creds)
                          ELSE [kind |-> "none", pc |-> "idle", next |-> Nothing]]
            /\ issued = [l \in Logins |-> IF l = 1 THEN first ELSE 0]
            /\ port = 0
            /\ login = [status |-> "idle", url |-> 0]
            /\ overlapped = FALSE
    BY DEF CredentialsInit
  <1>2. 0 \in 0..MaxGeneration /\ 1 \in 0..MaxGeneration /\ 0 \in Logins /\ 1 \in Logins
    BY BoundsAssumption DEF Logins
  <1>3. First(first) \in Creds
    BY <1>1, <1>2 DEF First, Creds
  <1>4. NoCreds \in Creds /\ Nothing \in Configs /\ [creds |-> First(first), settings |-> 1] \in Configs
    BY <1>2, <1>3 DEF NoCreds, Nothing, Creds, Configs
  <1>5. ClientOf(First(first)) \in Clients
    BY <1>3, <1>2 DEF ClientOf, Clients, Creds
  <1>6. /\ RefresherStarts(First(first)) \in Work
        /\ [kind |-> "none", pc |-> "idle", next |-> Nothing] \in Work
    BY <1>4 DEF RefresherStarts, Work, Pcs
  <1>7. work \in [Workers -> Work]
    BY <1>1, <1>6
  <1>8. Unwatched \in [pc : {"idle", "read", "load", "set", "invalidate"}, seen : Creds,
                       current : BOOLEAN]
    BY <1>4 DEF Unwatched
  <1>9. QED
    BY <1>1, <1>2, <1>3, <1>4, <1>5, <1>7, <1>8 DEF CredentialsTypeOK

\* Types and tokens are what they are said to be, whatever the workers, the
\* watcher and the restarts do to them.
THEOREM CredentialsTyped == CredentialsSpec => []CredentialsTypeOK
  <1>1. CredentialsTypeOK /\ [CredentialsNext]_vars => CredentialsTypeOK'
    <2> SUFFICES ASSUME CredentialsTypeOK, [CredentialsNext]_vars PROVE CredentialsTypeOK'
      OBVIOUS
    <2>1. CASE UNCHANGED vars
      BY <2>1 DEF vars, CredentialsTypeOK
    <2>2. CASE CredentialsNext
      BY <2>2, OperationStartsType, OperationStepType, RefresherType, WatcherType, RestartsType
      DEF CredentialsNext
    <2>3. QED
      BY <2>1, <2>2
  <1>2. QED
    BY <1>1, InitType, PTL DEF CredentialsSpec

-----------------------------------------------------------------------------
(* Refresh tokens. *)

Belongs(creds) == creds.refresh = creds.login

\* Every copy there is, those under way included.
Whole ==
    /\ Belongs(file.creds) /\ Belongs(cache) /\ Belongs(watcher.seen)
    /\ Belongs(config.main.creds) /\ Belongs(config.handler.creds)
    /\ \A w \in Workers : Belongs(work[w].next.creds)

NoDashboardLogin == \A o \in Operations : work[o].kind # "dashboardLogin"

LoginSteps == {"start", "offer", "listen", "keep"}

\* Only a login in the dashboard takes its steps.
LoginsListen ==
    \A o \in Operations :
        /\ work[o].pc \in LoginSteps => work[o].kind = "dashboardLogin"
        /\ work[o].pc = "idle" => work[o].kind = "none"

WholeInv == LoginsListen /\ (NoDashboardLogin => Whole)

\* What the tokens of one worker's step have to fulfil.
LEMMA OneMoves ==
    ASSUME CredentialsTypeOK, WholeInv, NEW w \in Workers, NEW r \in Work,
           work'[w] = r, \A x \in Workers \ {w} : work'[x] = work[x],
           w \in Operations => r.pc # "idle",
           w \in Operations /\ r.pc \in LoginSteps => r.kind = "dashboardLogin",
           w \in Operations => work[w].pc = "idle" \/ r.kind = work[w].kind
    PROVE  /\ LoginsListen'
           /\ NoDashboardLogin' => Whole
           /\ NoDashboardLogin' /\ Belongs(r.next.creds) =>
                 \A x \in Workers : Belongs(work'[x].next.creds)
  <1>1. LoginsListen'
    BY DEF LoginsListen, WholeInv, Workers
  <1>2. NoDashboardLogin' => NoDashboardLogin
    <2>1. ASSUME NoDashboardLogin', NEW o \in Operations
          PROVE  work[o].kind # "dashboardLogin"
      <3>1. work'[o].kind # "dashboardLogin" /\ o \in Workers
        BY <2>1 DEF NoDashboardLogin, Workers
      <3>2. CASE o # w
        BY <3>1, <3>2
      <3>3. CASE o = w /\ work[o].pc = "idle"
        BY <3>3 DEF WholeInv, LoginsListen
      <3>4. CASE o = w /\ r.kind = work[w].kind
        BY <3>1, <3>4
      <3>5. QED
        BY <3>2, <3>3, <3>4
    <2>2. QED
      BY <2>1 DEF NoDashboardLogin
  <1>3. NoDashboardLogin' => Whole
    BY <1>2 DEF WholeInv
  <1>4. NoDashboardLogin' /\ Belongs(r.next.creds) =>
            \A x \in Workers : Belongs(work'[x].next.creds)
    BY <1>3 DEF Whole
  <1>5. QED
    BY <1>1, <1>3, <1>4

LEMMA NewWhole ==
    /\ \A o \in Operations : Belongs(NewTokens(o))
    /\ \A l \in Logins : Belongs(Refreshed(l)) /\ Refreshed(l).login = l
    /\ Belongs(NoCreds) /\ Belongs(Nothing.creds)
  BY DEF Belongs, NewTokens, Refreshed, NoCreds, Nothing

LEMMA OperationStartsWhole ==
    ASSUME CredentialsTypeOK, WholeInv, NEW o \in Operations, OperationStarts(o)
    PROVE  WholeInv'
  <1>0. o \in Workers /\ work[o].pc = "idle"
    BY DEF Workers, OperationStarts, Save, Reorder, CliLogin, CheckPending, Starts
  <1>1. CASE Save(o)
    <2> DEFINE next == [creds |-> config.main.creds, settings |-> o]
               r == [kind |-> "save", pc |-> "rebuild", next |-> next]
    <2>1. next \in Configs /\ Prepares(o, "save", next, "rebuild") /\ "save" \in Kinds
          /\ "rebuild" \in Pcs
      BY <1>1, CredsTypes DEF Save, Starts, Pcs, CredentialsTypeOK, Configs
    <2>2. r \in Work
      BY <2>1 DEF Work
    <2>3. work'[o] = r /\ \A x \in Workers \ {o} : work'[x] = work[x]
      BY <1>0, <2>1, PreparesWork
    <2>4. /\ LoginsListen' /\ (NoDashboardLogin' => Whole)
          /\ NoDashboardLogin' /\ Belongs(r.next.creds) =>
                \A x \in Workers : Belongs(work'[x].next.creds)
      BY <1>0, <2>2, <2>3, OneMoves DEF LoginSteps
    <2>5. /\ file' = file /\ cache' = cache /\ watcher' = watcher
          /\ config'.main = config.main /\ config'.handler.creds = config.main.creds
      BY <1>1 DEF Save, fileVars, CredentialsTypeOK
    <2>6. QED
      BY <2>4, <2>5 DEF WholeInv, Whole
  <1>2. CASE Reorder(o)
    <2> DEFINE next == [config.handler EXCEPT !.settings = o]
               r == [kind |-> "reorder", pc |-> "truncate", next |-> next]
    <2>1. next \in Configs /\ Prepares(o, "reorder", next, "truncate") /\ "reorder" \in Kinds
          /\ "truncate" \in Pcs
      BY <1>2, CredsTypes DEF Reorder, Starts, Pcs, CredentialsTypeOK, Configs
    <2>2. r \in Work
      BY <2>1 DEF Work
    <2>3. work'[o] = r /\ \A x \in Workers \ {o} : work'[x] = work[x]
      BY <1>0, <2>1, PreparesWork
    <2>4. /\ LoginsListen' /\ (NoDashboardLogin' => Whole)
          /\ NoDashboardLogin' /\ Belongs(r.next.creds) =>
                \A x \in Workers : Belongs(work'[x].next.creds)
      BY <1>0, <2>2, <2>3, OneMoves DEF LoginSteps
    <2>5. next.creds = config.handler.creds
      BY DEF CredentialsTypeOK, Configs
    <2>6. /\ file' = file /\ cache' = cache /\ watcher' = watcher
          /\ config'.main.creds = config.handler.creds
          /\ config'.handler.creds = config.handler.creds
      BY <1>2, <2>5 DEF Reorder, fileVars
    <2>7. QED
      BY <2>4, <2>5, <2>6 DEF WholeInv, Whole
  <1>3. CASE CliLogin(o)
    <2> DEFINE next == [creds |-> NewTokens(o), settings |-> SettingsRead]
               r == [kind |-> "cliLogin", pc |-> "truncate", next |-> next]
    <2>1. next \in Configs /\ Prepares(o, "cliLogin", next, "truncate") /\ "cliLogin" \in Kinds
          /\ "truncate" \in Pcs
      BY <1>3, CredsTypes DEF CliLogin, Starts, Pcs, Configs
    <2>2. r \in Work
      BY <2>1 DEF Work
    <2>3. work'[o] = r /\ \A x \in Workers \ {o} : work'[x] = work[x]
      BY <1>0, <2>1, PreparesWork
    <2>4. /\ LoginsListen' /\ (NoDashboardLogin' => Whole)
          /\ NoDashboardLogin' /\ Belongs(r.next.creds) =>
                \A x \in Workers : Belongs(work'[x].next.creds)
      BY <1>0, <2>2, <2>3, OneMoves DEF LoginSteps
    <2>5. /\ file' = file /\ cache' = cache /\ watcher' = watcher /\ config' = config
          /\ Belongs(r.next.creds)
      BY <1>3, NewWhole DEF CliLogin, fileVars, runtimeVars
    <2>6. QED
      BY <2>4, <2>5 DEF WholeInv, Whole
  <1>4. CASE CheckPending(o)
    <2> DEFINE r == [kind |-> "dashboardLogin", next |-> Nothing,
                     pc |-> IF login.status = "pending" THEN "over" ELSE "start"]
    <2>1. r \in Work /\ work' = [work EXCEPT ![o] = r]
      BY <1>4, CredsTypes DEF CheckPending, Starts, Work, Pcs
    <2>2. work'[o] = r /\ \A x \in Workers \ {o} : work'[x] = work[x]
      BY <1>0, <2>1 DEF CredentialsTypeOK
    <2>3. LoginsListen'
      BY <1>0, <2>1, <2>2, OneMoves
    <2>4. ~NoDashboardLogin'
      BY <2>2 DEF NoDashboardLogin
    <2>5. QED
      BY <2>3, <2>4 DEF WholeInv
  <1>5. QED
    BY <1>1, <1>2, <1>3, <1>4 DEF OperationStarts

LEMMA TruncatesWhole ==
    ASSUME CredentialsTypeOK, WholeInv, NEW w \in Workers, Truncates(w)
    PROVE  WholeInv'
  <1> DEFINE r == [kind |-> work[w].kind, pc |-> "fill", next |-> work[w].next]
  <1>1. work'[w] = r /\ r \in Work /\ \A x \in Workers \ {w} : work'[x] = work[x]
    <2>1. Goes(w, "fill") /\ "fill" \in Pcs
      BY DEF Truncates, Pcs
    <2>2. work' \in [Workers -> Work] /\ work'[w] = r /\ \A x \in Workers \ {w} : work'[x] = work[x]
      BY <2>1, GoesWork
    <2>3. QED
      BY <2>2
  <1>2. /\ LoginsListen' /\ (NoDashboardLogin' => Whole)
        /\ NoDashboardLogin' /\ Belongs(r.next.creds) =>
              \A x \in Workers : Belongs(work'[x].next.creds)
    BY <1>1, OneMoves DEF LoginSteps
  <1>3. /\ file'.creds = file.creds /\ cache' = cache /\ watcher' = watcher /\ config' = config
    BY DEF Truncates, CredentialsTypeOK, runtimeVars
  <1>4. QED
    BY <1>2, <1>3 DEF WholeInv, Whole

LEMMA FillsWhole ==
    ASSUME CredentialsTypeOK, WholeInv, NEW w \in Workers, Fills(w)
    PROVE  WholeInv'
  <1> DEFINE r == work'[w]
  <1>1. /\ r \in Work /\ \A x \in Workers \ {w} : work'[x] = work[x]
        /\ r.kind = work[w].kind
        /\ \/ r.pc \in {"update", "over"}
           \/ r.pc = "keep" /\ work[w].kind = "dashboardLogin"
        /\ r.next \in {work[w].next, Nothing}
    BY FillsWork
  <1>2. r.pc # "idle"
    BY <1>1
  <1>3. /\ LoginsListen' /\ (NoDashboardLogin' => Whole)
        /\ NoDashboardLogin' /\ Belongs(r.next.creds) =>
              \A x \in Workers : Belongs(work'[x].next.creds)
    BY <1>1, <1>2, OneMoves DEF LoginSteps
  <1>4. /\ file'.creds = work[w].next.creds /\ cache' = cache /\ watcher' = watcher
        /\ config' = config
    BY DEF Fills, runtimeVars
  <1>5. QED
    BY <1>1, <1>3, <1>4, NewWhole DEF WholeInv, Whole

LEMMA OperationStepWhole ==
    ASSUME CredentialsTypeOK, WholeInv, NEW o \in Operations, OperationStep(o)
    PROVE  WholeInv'
  <1>0. o \in Workers
    BY DEF Workers
  <1>1. CASE RebuildRouter(o)
    <2> DEFINE r == [kind |-> work[o].kind, pc |-> "truncate", next |-> work[o].next]
    <2>1. Goes(o, "truncate") /\ "truncate" \in Pcs
      BY <1>1 DEF RebuildRouter, Pcs
    <2>2. r \in Work /\ work'[o] = r /\ \A x \in Workers \ {o} : work'[x] = work[x]
      <3>1. /\ work' \in [Workers -> Work] /\ work'[o] = r
            /\ \A x \in Workers \ {o} : work'[x] = work[x]
        BY <1>0, <2>1, GoesWork
      <3>2. QED
        BY <1>0, <3>1
    <2>3. /\ LoginsListen' /\ (NoDashboardLogin' => Whole)
          /\ NoDashboardLogin' /\ Belongs(r.next.creds) =>
                \A x \in Workers : Belongs(work'[x].next.creds)
      BY <1>0, <2>2, OneMoves DEF LoginSteps
    <2>4. /\ file' = file /\ cache' = cache /\ watcher'.seen = watcher.seen
          /\ config'.main \in {config.main, work[o].next} /\ config'.handler = config.handler
      BY <1>1 DEF RebuildRouter, fileVars, CredentialsTypeOK
    <2>5. QED
      BY <1>0, <2>3, <2>4 DEF WholeInv, Whole
  <1>2. CASE StartOAuthServer(o) \/ Offers(o) \/ Publishes(o) \/ LoginFails(o) \/ LoginCompletes(o)
    <2>1. work[o].pc \in LoginSteps
      BY <1>2 DEF StartOAuthServer, Offers, Publishes, LoginFails, LoginCompletes, LoginSteps
    <2>2. work[o].kind = "dashboardLogin"
      BY <2>1 DEF WholeInv, LoginsListen
    <2>3. /\ work'[o].kind = work[o].kind /\ work'[o].pc # "idle"
          /\ \A x \in Workers \ {o} : work'[x] = work[x]
      <3>1. CASE \E pc \in {"offer", "listen", "over"} : Goes(o, pc)
        BY <1>0, <3>1 DEF Goes, CredentialsTypeOK
      <3>2. CASE Publishes(o)
        <4> DEFINE creds == [login |-> o, gen |-> 1, refresh |-> config.handler.creds.refresh]
                   next == [config.handler EXCEPT !.creds = creds]
        <4>1. Prepares(o, work[o].kind, next, "rebuild")
          BY <3>2 DEF Publishes
        <4>2. QED
          BY <1>0, <4>1 DEF Prepares, CredentialsTypeOK
      <3>3. CASE Ends(o, "over")
        BY <1>0, <3>3 DEF Ends, CredentialsTypeOK
      <3>4. \/ \E pc \in {"offer", "listen", "over"} : Goes(o, pc)
            \/ Publishes(o) \/ Ends(o, "over")
        BY <1>2 DEF StartOAuthServer, Offers, LoginFails, LoginCompletes
      <3>5. QED
        BY <3>1, <3>2, <3>3, <3>4
    <2>4. ~NoDashboardLogin'
      BY <2>2, <2>3 DEF NoDashboardLogin
    <2>5. LoginsListen'
      BY <2>2, <2>3 DEF WholeInv, LoginsListen, Workers
    <2>6. QED
      BY <2>4, <2>5 DEF WholeInv
  <1>3. CASE Truncates(o)
    BY <1>0, <1>3, TruncatesWhole
  <1>4. CASE Fills(o)
    BY <1>0, <1>4, FillsWhole
  <1>5. QED
    BY <1>1, <1>2, <1>3, <1>4 DEF OperationStep

LEMMA WatcherWhole ==
    ASSUME CredentialsTypeOK, WholeInv, WatcherStep
    PROVE  WholeInv'
  <1>1. work' = work /\ file' = file /\ config' = config
    BY DEF WatcherStep, Looks, Reads, LoadsRouter, SetsCodex, Invalidates, unwatched
  <1>2. cache' \in {cache, NoCreds}
    BY DEF WatcherStep, Looks, Reads, LoadsRouter, SetsCodex, Invalidates, unwatched
  <1>3. watcher'.seen \in {watcher.seen, file.creds, NoCreds}
    BY DEF WatcherStep, Looks, Reads, LoadsRouter, SetsCodex, Invalidates, CredentialsTypeOK
  <1>4. LoginsListen' /\ (NoDashboardLogin' => Whole)
    BY <1>1 DEF WholeInv, LoginsListen, NoDashboardLogin
  <1>5. ASSUME Whole PROVE Whole'
    BY <1>1, <1>2, <1>3, <1>5, NewWhole DEF Whole
  <1>6. QED
    BY <1>4, <1>5 DEF WholeInv

LEMMA RefresherWhole ==
    ASSUME CredentialsTypeOK, WholeInv, RefresherStep \/ Refreshes \/ RefreshFails
    PROVE  WholeInv'
  <1> DEFINE r == work'[Refresher]
  <1>0. Refresher \in Workers /\ Refresher \notin Operations
    BY OperationsAssumption DEF Workers
  <1>1. CASE Truncates(Refresher) \/ Fills(Refresher)
    BY <1>0, <1>1, TruncatesWhole, FillsWhole
  <1>2. ASSUME r \in Work, \A x \in Workers \ {Refresher} : work'[x] = work[x],
               file' = file, watcher' = watcher, config' = config,
               Whole => Belongs(r.next.creds) /\ Belongs(cache')
        PROVE  WholeInv'
    <2>1. LoginsListen' /\ (NoDashboardLogin' => Whole)
      BY <1>0, <1>2, OneMoves
    <2>2. NoDashboardLogin' => \A x \in Workers : Belongs(work'[x].next.creds)
      BY <1>0, <1>2, <2>1 DEF Whole
    <2>3. QED
      BY <1>2, <2>1, <2>2 DEF WholeInv, Whole
  <1>3. CASE Loads
    <2>1. PICK from \in {cache, file.creds}, pc \in {"wait", "publish"} : Holds(Tokens(from), pc)
      BY <1>3 DEF Loads
    <2>2. from \in Creds /\ Tokens(from) \in Configs /\ pc \in Pcs
      BY <2>1, CredsTypes DEF CredentialsTypeOK, Pcs
    <2>3. r \in Work /\ r.next = Tokens(from) /\ \A x \in Workers \ {Refresher} : work'[x] = work[x]
      <3>1. /\ work' \in [Workers -> Work]
            /\ work'[Refresher] = [kind |-> "none", pc |-> pc, next |-> Tokens(from)]
            /\ \A x \in Workers \ {Refresher} : work'[x] = work[x]
        BY <1>0, <2>1, <2>2, HoldsWork
      <3>2. QED
        BY <1>0, <3>1
    <2>4. Whole => Belongs(r.next.creds)
      BY <2>1, <2>3 DEF Whole, Tokens
    <2>5. file' = file /\ cache' = cache /\ watcher' = watcher /\ config' = config
      BY <1>3 DEF Loads, fileVars, runtimeVars
    <2>6. Whole => Belongs(cache')
      BY <2>5 DEF Whole
    <2>7. QED
      BY <1>2, <2>3, <2>4, <2>5, <2>6
  <1>4. CASE Caches
    <2>1. Goes(Refresher, "wait") /\ "wait" \in Pcs
      BY <1>4 DEF Caches, Pcs
    <2>2. /\ r \in Work /\ r.next = work[Refresher].next
          /\ \A x \in Workers \ {Refresher} : work'[x] = work[x]
      <3>1. /\ work' \in [Workers -> Work]
            /\ work'[Refresher] = [kind |-> work[Refresher].kind, pc |-> "wait", next |-> work[Refresher].next]
            /\ \A x \in Workers \ {Refresher} : work'[x] = work[x]
        BY <1>0, <2>1, GoesWork
      <3>2. QED
        BY <1>0, <3>1
    <2>3. file' = file /\ cache' = work[Refresher].next.creds /\ watcher' = watcher /\ config' = config
      BY <1>4 DEF Caches, fileVars, runtimeVars, Held
    <2>4. Whole => Belongs(r.next.creds) /\ Belongs(cache')
      BY <1>0, <2>2, <2>3 DEF Whole
    <2>5. QED
      BY <1>2, <2>2, <2>3, <2>4
  <1>5. CASE Refreshes
    <2> DEFINE next == Tokens(Refreshed(Held.refresh))
    <2>1. Prepares(Refresher, "none", next, "read") /\ issued[Held.refresh] < MaxGeneration
      BY <1>5 DEF Refreshes
    <2>2. Held.refresh \in Logins
      BY CredsTypes DEF Creds
    <2>3. next \in Configs /\ next.creds = Refreshed(Held.refresh) /\ "read" \in Pcs
      BY <2>1, <2>2, CredsTypes DEF Tokens, Pcs
    <2>4. r \in Work /\ r.next = next /\ \A x \in Workers \ {Refresher} : work'[x] = work[x]
      <3>1. /\ work' \in [Workers -> Work]
            /\ work'[Refresher] = [kind |-> "none", pc |-> "read", next |-> next]
            /\ \A x \in Workers \ {Refresher} : work'[x] = work[x]
        BY <1>0, <2>1, <2>3, PreparesWork
      <3>2. QED
        BY <1>0, <3>1
    <2>5. file' = file /\ cache' = cache /\ watcher' = watcher /\ config' = config
      BY <1>5 DEF Refreshes, fileVars, runtimeVars
    <2>6. Whole => Belongs(r.next.creds) /\ Belongs(cache')
      BY <2>2, <2>3, <2>4, <2>5, NewWhole DEF Whole
    <2>7. QED
      BY <1>2, <2>4, <2>5, <2>6
  <1>6. CASE RefreshFails \/ UpdatesToken
    <2>1. Ends(Refresher, "load") /\ "load" \in Pcs
      BY <1>6 DEF RefreshFails, UpdatesToken, Pcs
    <2>2. /\ r \in Work /\ r.next = Nothing
          /\ \A x \in Workers \ {Refresher} : work'[x] = work[x]
      <3>1. /\ work' \in [Workers -> Work]
            /\ work'[Refresher] = [kind |-> work[Refresher].kind, pc |-> "load", next |-> Nothing]
            /\ \A x \in Workers \ {Refresher} : work'[x] = work[x]
        BY <1>0, <2>1, EndsWork
      <3>2. QED
        BY <1>0, <3>1
    <2>3. file' = file /\ cache' = cache /\ watcher' = watcher /\ config' = config
      BY <1>6 DEF RefreshFails, UpdatesToken, fileVars, runtimeVars
    <2>4. Whole => Belongs(r.next.creds) /\ Belongs(cache')
      BY <2>2, <2>3, NewWhole DEF Whole
    <2>5. QED
      BY <1>2, <2>2, <2>3, <2>4
  <1>7. CASE ReadsSettings
    <2> DEFINE next == [creds |-> Held, settings |-> SettingsRead]
    <2>1. next \in Configs /\ "truncate" \in Pcs /\ Holds(next, "truncate")
      BY <1>7, CredsTypes DEF ReadsSettings, Configs, Pcs
    <2>2. r \in Work /\ r.next = next /\ \A x \in Workers \ {Refresher} : work'[x] = work[x]
      <3>1. /\ work' \in [Workers -> Work]
            /\ work'[Refresher] = [kind |-> "none", pc |-> "truncate", next |-> next]
            /\ \A x \in Workers \ {Refresher} : work'[x] = work[x]
        BY <1>0, <2>1, HoldsWork
      <3>2. QED
        BY <1>0, <3>1
    <2>3. file' = file /\ cache' = Held /\ watcher' = watcher /\ config' = config
      BY <1>7 DEF ReadsSettings, fileVars, runtimeVars
    <2>4. Whole => Belongs(r.next.creds) /\ Belongs(cache')
      BY <1>0, <2>2, <2>3 DEF Whole, Held
    <2>5. QED
      BY <1>2, <2>2, <2>3, <2>4
  <1>8. QED
    BY <1>1, <1>3, <1>4, <1>5, <1>6, <1>7 DEF RefresherStep

LEMMA RestartsWhole ==
    ASSUME CredentialsTypeOK, WholeInv, NEW o \in Operations, Restarts(o)
    PROVE  WholeInv'
  <1> DEFINE kept(creds) == [login |-> creds.login, gen |-> creds.gen,
                             refresh |-> file.creds.refresh]
             now(creds) == [creds |-> kept(creds), settings |-> file.settings]
             over == [kind |-> "restart", pc |-> "over", next |-> Nothing]
             works(creds) == [w \in Workers |->
                                 IF w = Refresher THEN RefresherStarts(creds)
                                 ELSE IF w = o THEN over ELSE OperationsEnd[w]]
  <1>1. PICK creds \in TokensAtStart :
            /\ file' = [file EXCEPT !.creds = creds]
            /\ cache' = creds
            /\ config' = [main |-> now(creds), handler |-> now(creds)]
            /\ work' = works(creds)
    BY DEF Restarts
  <1>2. work[o].pc = "idle" /\ watcher' = Unwatched
    BY DEF Restarts, Starts
  <1>3. work[o].kind = "none"
    BY <1>2 DEF WholeInv, LoginsListen
  <1>4. work'[Refresher].next = Nothing /\ work'[o] = over
    BY <1>1, OperationsAssumption DEF Workers, RefresherStarts
  <1>5. ASSUME NEW x \in Operations, x # o
        PROVE  /\ work'[x].kind = work[x].kind /\ work'[x].next \in {work[x].next, Nothing}
               /\ work'[x].pc \in {work[x].pc, "over"}
    <2>1. work'[x] = OperationsEnd[x]
      BY <1>1, <1>5, OperationsAssumption DEF Workers
    <2>2. work'[x] \in {work[x], [kind |-> work[x].kind, pc |-> "over", next |-> Nothing]}
      BY <2>1 DEF OperationsEnd
    <2>3. QED
      BY <2>2
  <1>6. LoginsListen'
    BY <1>4, <1>5 DEF WholeInv, LoginsListen, LoginSteps
  <1>7. NoDashboardLogin' => NoDashboardLogin
    BY <1>3, <1>5 DEF NoDashboardLogin
  <1>8. ASSUME Whole PROVE Whole'
    <2>1. file.creds \in Creds /\ file.creds.refresh = file.creds.login
      BY <1>8 DEF CredentialsTypeOK, Whole, Belongs
    <2>2. creds.refresh = creds.login /\ creds.login = file.creds.refresh
      BY <1>1, <2>1 DEF TokensAtStart, Refreshed
    <2>3. file'.creds = creds /\ cache' = creds /\ watcher'.seen = NoCreds
      BY <1>1, <1>2 DEF CredentialsTypeOK, Unwatched
    <2>4. config'.main.creds = kept(creds) /\ config'.handler.creds = kept(creds)
      BY <1>1
    <2>5. Belongs(creds) /\ Belongs(kept(creds)) /\ Belongs(NoCreds) /\ Belongs(Nothing.creds)
      BY <2>2, NewWhole DEF Belongs
    <2>6. \A w \in Workers : Belongs(work'[w].next.creds)
      BY <1>4, <1>5, <1>8, <2>5 DEF Workers, Whole
    <2>7. QED
      BY <2>3, <2>4, <2>5, <2>6 DEF Whole
  <1>9. QED
    BY <1>6, <1>7, <1>8 DEF WholeInv

LEMMA InitWhole == CredentialsInit => WholeInv
  <1> SUFFICES ASSUME CredentialsInit PROVE WholeInv
    OBVIOUS
  <1>1. PICK first \in {0, 1} :
            /\ file.creds = First(first) /\ cache = First(first) /\ watcher = Unwatched
            /\ config.main.creds = First(first) /\ config.handler.creds = First(first)
            /\ work = [w \in Workers |->
                          IF w = Refresher THEN RefresherStarts(First(first))
                          ELSE [kind |-> "none", pc |-> "idle", next |-> Nothing]]
    BY DEF CredentialsInit
  <1>2. Belongs(First(first)) /\ Belongs(watcher.seen)
    BY <1>1 DEF Belongs, First, Unwatched, NoCreds
  <1>3. \A w \in Workers : work[w].next = Nothing
    BY <1>1 DEF RefresherStarts
  <1>4. LoginsListen
    BY <1>1, OperationsAssumption DEF LoginsListen, Workers, LoginSteps
  <1>5. QED
    BY <1>1, <1>2, <1>3, <1>4, NewWhole DEF WholeInv, Whole

\* Until there is a login in the dashboard, neither races of the refresher, the
\* watcher, saves and logins on the command line, nor a restart between any two
\* of their steps, put the access token of one login next to the refresh token
\* of another.
THEOREM RefreshTokensBelong == CredentialsSpec => []RefreshTokenBelongs
  <1>1. WholeInv => RefreshTokenBelongs
    BY DEF WholeInv, NoDashboardLogin, RefreshTokenBelongs, Whole, Belongs
  <1>2. CredentialsTypeOK /\ WholeInv /\ [CredentialsNext]_vars => WholeInv'
    <2> SUFFICES ASSUME CredentialsTypeOK, WholeInv, [CredentialsNext]_vars PROVE WholeInv'
      OBVIOUS
    <2>1. CASE UNCHANGED vars
      BY <2>1 DEF vars, WholeInv, LoginsListen, NoDashboardLogin, Whole
    <2>2. CASE CredentialsNext
      BY <2>2, OperationStartsWhole, OperationStepWhole, RefresherWhole, WatcherWhole, RestartsWhole
      DEF CredentialsNext
    <2>3. QED
      BY <2>1, <2>2
  <1>3. QED
    BY <1>1, <1>2, InitWhole, CredentialsTyped, PTL DEF CredentialsSpec
=============================================================================
