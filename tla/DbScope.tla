------------------------------ MODULE DbScope -------------------------------
(***************************************************************************)
(* Database clients and the invocations that use them: server/db/memo.ts,  *)
(* getAuth (server/auth/auth.ts), the SvelteKit hook (hooks.server.ts),    *)
(* the middleware in front of the API handlers (server/routes.ts) and the  *)
(* cron entry (server/puzzle/scheduled-entry.ts).  On Cloudflare Workers a *)
(* client belongs to one invocation and is ended with it; on Node there is *)
(* one warm client per URL.                                                *)
(***************************************************************************)
EXTENDS Integers, Sequences, Functions

CONSTANTS
  Invocations,  \* fetch requests and cron runs
  Kinds,        \* which of DOMAIN Awaits the invocations are
  Urls,         \* values of DATABASE_URL
  Inert,        \* INERT_DB_URL
  Runtime,      \* "workerd" or "node"
  MaxClients,   \* bound: the clients of one behaviour
  None

Clients == 1..MaxClients
AnyUrl  == Urls \cup {Inert}

(* What each kind of invocation awaits, in order: a statement of Better    *)
(* Auth or of the application, or the rate limiter.  A page or an API call *)
(* carries the session cookie, a sign-in does not.                         *)
Awaits ==
  [page   |-> <<"auth">>,
   api    |-> <<"auth", "auth", "db">>,
   signin |-> <<"limiter", "auth">>,
   cron   |-> <<"db", "db">>]

ASSUME ScopeAssumption ==
  /\ Kinds \subseteq DOMAIN Awaits
  /\ Runtime \in {"workerd", "node"}
  /\ MaxClients \in Nat
  /\ None \notin Clients \cup AnyUrl /\ Inert \notin Urls

VARIABLES
  invocations,  \* the handler of each invocation and its request store
  clients,      \* every client created
  nodeCache,    \* the warm memo, per URL
  cachedAuth    \* the warm Better Auth instance: its URL and client

vars == <<invocations, clients, nodeCache, cachedAuth>>

(* `pc' is the handler, `scope' the wrapper withDbScope around it: after   *)
(* the 30 s timeout the wrapper goes on without the handler.               *)
NoInvocation ==
  [pc |-> "none", kind |-> None, url |-> None, at |-> 0, using |-> None,
   timedOut |-> FALSE, scope |-> "none", closing |-> {},
   dbs |-> [u \in AnyUrl |-> None], owned |-> {}, auths |-> [u \in AnyUrl |-> None]]

NoClient == [pc |-> "none", url |-> None, by |-> None]

Init ==
  /\ invocations = [i \in Invocations |-> NoInvocation]
  /\ clients = [c \in Clients |-> NoClient]
  /\ nodeCache = [u \in AnyUrl |-> None]
  /\ cachedAuth = [url |-> None, client |-> None]

-----------------------------------------------------------------------------
(* memo.ts *)

(* A wrong variant: an unknown user agent selects the warm mode. *)
TakenForNode == FALSE

isWorkerdRuntime == Runtime = "workerd"

Spare == {c \in Clients : clients[c].pc = "none"}

Known(i, u) == IF isWorkerdRuntime THEN invocations[i].dbs[u] ELSE nodeCache[u]

Created == {c \in Spare : \A d \in Spare : c <= d}

(* The client for a URL; none within the bound MaxClients. *)
resolveDb(i, u) == IF Known(i, u) = None THEN Created ELSE {Known(i, u)}

(* A wrong variant: Better Auth gets a client of its own. *)
OwnAuthDb(i, u) == Created

getDbForAuth(i, u) == resolveDb(i, u)

Stored(store, u, c) ==
  IF isWorkerdRuntime /\ store.dbs[u] # c
    THEN [store EXCEPT !.dbs[u] = c, !.owned = @ \cup {c}]
    ELSE store

Create(i, u, c) ==
  /\ clients' = IF clients[c].pc = "none"
                  THEN [clients EXCEPT ![c] = [pc |-> "open", url |-> u, by |-> i]]
                  ELSE clients
  /\ nodeCache' = IF isWorkerdRuntime THEN nodeCache ELSE [nodeCache EXCEPT ![u] = c]

(* A statement on a client: a pool that is being ended refuses it. *)
Begin(store, c) ==
  IF clients[c].pc \in {"none", "open"}
    THEN [store EXCEPT !.pc = "using", !.using = c]
    ELSE [store EXCEPT !.pc = "failed"]

-----------------------------------------------------------------------------
(* The handler *)

Arrive(i) ==
  /\ invocations[i].pc = "none"
  /\ \E kind \in Kinds, url \in Urls \cup {None} :
       invocations' = [invocations EXCEPT ![i] =
         [NoInvocation EXCEPT !.pc = "next", !.kind = kind, !.url = url, !.at = 1, !.scope = "open"]]
  /\ UNCHANGED <<clients, nodeCache, cachedAuth>>

Awaiting(i, what) ==
  LET steps == Awaits[invocations[i].kind] IN
  /\ invocations[i].pc = "next"
  /\ invocations[i].at <= Len(steps)
  /\ steps[invocations[i].at] = what

Limit(i) ==
  /\ Awaiting(i, "limiter")
  /\ invocations' = [invocations EXCEPT ![i].at = @ + 1]
  /\ UNCHANGED <<clients, nodeCache, cachedAuth>>

(* getDb, then a statement or a transaction of a service. *)
UseDb(i) ==
  LET u == invocations[i].url IN
  /\ Awaiting(i, "db")
  /\ IF u = None
       THEN /\ invocations' = [invocations EXCEPT ![i].pc = "failed"]
            /\ UNCHANGED <<clients, nodeCache>>
       ELSE \E c \in resolveDb(i, u) :
              /\ invocations' = [invocations EXCEPT ![i] = Begin(Stored(@, u, c), c)]
              /\ Create(i, u, c)
  /\ UNCHANGED cachedAuth

AuthUrl(i) == IF invocations[i].url = None THEN Inert ELSE invocations[i].url

(* getAuth resolves a client first and keeps it only in a new instance. *)
KnownAuth(i, u) ==
  IF isWorkerdRuntime THEN invocations[i].auths[u]
  ELSE IF cachedAuth.url = u THEN cachedAuth.client ELSE None

UseAuth(i) ==
  LET u == AuthUrl(i) IN
  /\ Awaiting(i, "auth")
  /\ \E db \in getDbForAuth(i, u) :
       LET c == IF KnownAuth(i, u) = None THEN db ELSE KnownAuth(i, u)
           store == Stored(invocations[i], u, db)
       IN
       /\ invocations' = [invocations EXCEPT ![i] =
            Begin(IF isWorkerdRuntime THEN [store EXCEPT !.auths[u] = c] ELSE store, c)]
       /\ cachedAuth' = IF isWorkerdRuntime THEN cachedAuth ELSE [url |-> u, client |-> c]
       /\ Create(i, u, db)

(* The database answers: the handler goes on, or fails. *)
StatementEnds(i) ==
  /\ invocations[i].pc = "using"
  /\ \E ok \in BOOLEAN :
       invocations' = [invocations EXCEPT
         ![i].pc = IF ok THEN "next" ELSE "failed", ![i].using = None, ![i].at = @ + 1]
  /\ UNCHANGED <<clients, nodeCache, cachedAuth>>

Return(i) ==
  /\ invocations[i].pc = "next"
  /\ invocations[i].at > Len(Awaits[invocations[i].kind])
  /\ invocations' = [invocations EXCEPT ![i].pc = "done"]
  /\ UNCHANGED <<clients, nodeCache, cachedAuth>>

-----------------------------------------------------------------------------
(* The wrapper *)

(* hono/timeout, armed in front of the API once the hook is through. *)
TimerArmed(i) ==
  \/ invocations[i].kind = "signin"
  \/ invocations[i].kind = "api" /\ invocations[i].at > 1

TimeOut(i) ==
  /\ invocations[i].scope = "open" /\ invocations[i].pc \in {"next", "using"}
  /\ TimerArmed(i) /\ ~invocations[i].timedOut
  /\ invocations' = [invocations EXCEPT ![i].timedOut = TRUE]
  /\ UNCHANGED <<clients, nodeCache, cachedAuth>>

Settled(i) == invocations[i].pc \in {"done", "failed"} \/ invocations[i].timedOut

EndAll(cs) ==
  clients' = [c \in Clients |->
    IF c \in cs /\ clients[c].pc = "open" THEN [clients[c] EXCEPT !.pc = "ending"] ELSE clients[c]]

(* A wrong variant: the clients are closed after fn(), not in `finally'. *)
CloseOnSuccess(i) ==
  /\ invocations[i].scope = "open" /\ Settled(i)
  /\ LET owned == IF invocations[i].pc = "done" THEN invocations[i].owned ELSE {} IN
     /\ invocations' = [invocations EXCEPT ![i].scope = "closing", ![i].closing = owned]
     /\ EndAll(owned)
  /\ UNCHANGED <<nodeCache, cachedAuth>>

(* `finally' takes the clients owned at that moment; on Node nothing is    *)
(* owned.                                                                  *)
CloseScope(i) ==
  /\ invocations[i].scope = "open" /\ Settled(i)
  /\ invocations' = [invocations EXCEPT ![i].scope = "closing", ![i].closing = invocations[i].owned]
  /\ EndAll(invocations[i].owned)
  /\ UNCHANGED <<nodeCache, cachedAuth>>

InUse(c) == \E i \in Invocations : invocations[i].using = c

(* Pool.end() is through when no connection is checked out. *)
EndClient(c) ==
  /\ clients[c].pc = "ending" /\ ~InUse(c)
  /\ clients' = [clients EXCEPT ![c].pc = "ended"]
  /\ UNCHANGED <<invocations, nodeCache, cachedAuth>>

(* The response leaves once every close has settled. *)
Answer(i) ==
  /\ invocations[i].scope = "closing"
  /\ \A c \in invocations[i].closing : clients[c].pc = "ended"
  /\ invocations' = [invocations EXCEPT ![i].scope = "answered"]
  /\ UNCHANGED <<clients, nodeCache, cachedAuth>>

-----------------------------------------------------------------------------
Handler(i) == Limit(i) \/ UseDb(i) \/ UseAuth(i) \/ Return(i)
Wrapper(i) == CloseScope(i) \/ Answer(i)

Next ==
  \/ \E i \in Invocations :
       Arrive(i) \/ Handler(i) \/ StatementEnds(i) \/ TimeOut(i) \/ Wrapper(i)
  \/ \E c \in Clients : EndClient(c)

Spec == Init /\ [][Next]_vars

(* The runtime schedules what can go on, and the database and the rate     *)
(* limiter answer in the end.                                              *)
FairSpec ==
  /\ Spec
  /\ \A i \in Invocations :
       /\ WF_vars(UseDb(i) \/ UseAuth(i) \/ Return(i)) /\ WF_vars(Wrapper(i))
       /\ WF_vars(StatementEnds(i)) /\ WF_vars(Limit(i))
  /\ \A c \in Clients : WF_vars(EndClient(c))

-----------------------------------------------------------------------------
(* Properties *)

Store ==
  [pc: {"none", "next", "using", "done", "failed"}, kind: Kinds \cup {None},
   url: Urls \cup {None}, at: Nat, using: Clients \cup {None},
   timedOut: BOOLEAN, scope: {"none", "open", "closing", "answered"}, closing: SUBSET Clients,
   dbs: [AnyUrl -> Clients \cup {None}], owned: SUBSET Clients,
   auths: [AnyUrl -> Clients \cup {None}]]

(* Types; a scope owns the clients it keeps and no others. *)
TypeOK ==
  /\ invocations \in [Invocations -> Store]
  /\ clients \in [Clients ->
       [pc: {"none", "open", "ending", "ended"}, url: AnyUrl \cup {None},
        by: Invocations \cup {None}]]
  /\ nodeCache \in [AnyUrl -> Clients \cup {None}]
  /\ cachedAuth \in [url: AnyUrl \cup {None}, client: Clients \cup {None}]
  /\ \A i \in Invocations : invocations[i].owned = Range(invocations[i].dbs) \ {None}

(* "A client belongs to exactly one request": on Workers no invocation     *)
(* holds or uses, directly or inside a Better Auth instance, a client that *)
(* another one created.                                                    *)
NoForeignIO ==
  Runtime = "workerd" =>
    \A i \in Invocations :
      LET s == invocations[i] IN
      \A c \in (Range(s.dbs) \cup Range(s.auths) \cup {s.using}) \ {None} : clients[c].by = i

(* The hook, Better Auth and the services share one client per URL: of one *)
(* invocation on Workers, of the whole process on Node.                    *)
OneClientPerUrl ==
  \A c, d \in Clients :
    /\ clients[c].pc # "none" /\ clients[d].pc # "none"
    /\ clients[c].url = clients[d].url
    /\ Runtime = "workerd" => clients[c].by = clients[d].by
    => c = d

(* On Node the clients of the warm memo are never closed under the         *)
(* invocations that share them: nobody owns them.                          *)
WarmClientsStay ==
  Runtime = "node" => \A c \in Clients : clients[c].pc \in {"none", "open"}

(* A client made after `finally' took the list of those owned, by a        *)
(* handler the timeout left behind.                                        *)
CreatedLate(c) ==
  LET i == clients[c].by IN
  /\ i \in Invocations /\ invocations[i].timedOut
  /\ invocations[i].scope \in {"closing", "answered"} /\ c \notin invocations[i].closing

(* On Workers every client created is ended in the end, whether its        *)
(* handler returned, failed or was left behind by the timeout, but for one *)
(* that a handler left behind creates after `finally' took its list: that  *)
(* one nobody closes.                                                      *)
ClientsEnd ==
  \A c \in Clients :
    Runtime = "workerd" /\ clients[c].pc = "open"
      ~> clients[c].pc = "ended" \/ CreatedLate(c)
=============================================================================
