--------------------------- MODULE DbScopeProofs ----------------------------
(***************************************************************************)
(* For any number of invocations, URLs and clients: types, that no         *)
(* invocation on Workers ever holds the client of another, and that one    *)
(* client per URL is shared.  The inductive invariant ties the two sides   *)
(* together: a client created is the one its creator's store (the warm     *)
(* memo, on Node) has for its URL, and what a store holds was created by   *)
(* its own invocation.                                                     *)
(***************************************************************************)
EXTENDS DbScope, TLAPS

Exists(c) == clients[c].pc # "none"

OwnClient(i, c) == c \in Clients /\ Exists(c) /\ clients[c].by = i

OwnClientNext(i, c) == c \in Clients /\ clients'[c].pc # "none" /\ clients'[c].by = i

(* Every client created can be found again. *)
Registered ==
  \A c \in Clients : Exists(c) =>
    /\ clients[c].url \in AnyUrl /\ clients[c].by \in Invocations
    /\ isWorkerdRuntime => invocations[clients[c].by].dbs[clients[c].url] = c
    /\ ~isWorkerdRuntime => nodeCache[clients[c].url] = c

(* What a store holds is its own. *)
StoreSound(i) ==
  LET s == invocations[i] IN
  /\ \A u \in AnyUrl :
       /\ s.dbs[u] # None => OwnClient(i, s.dbs[u]) /\ clients[s.dbs[u]].url = u
       /\ s.auths[u] # None => OwnClient(i, s.auths[u])
  /\ s.using # None => OwnClient(i, s.using)

HeldSound == isWorkerdRuntime => \A i \in Invocations : StoreSound(i)

Blank == \A i \in Invocations : invocations[i].pc = "none" => invocations[i] = NoInvocation

ScopeInv == TypeOK /\ Registered /\ HeldSound /\ Blank

-----------------------------------------------------------------------------
(* The values of a function that had None at u and has c there now. *)
LEMMA RangeExtends ==
  ASSUME NEW f \in [AnyUrl -> Clients \cup {None}], NEW u \in AnyUrl, NEW c \in Clients,
         f[u] = None, c # None
  PROVE  Range([f EXCEPT ![u] = c]) \ {None} = (Range(f) \ {None}) \cup {c}
<1> DEFINE g == [f EXCEPT ![u] = c]
<1>1. DOMAIN g = AnyUrl /\ g[u] = c /\ \A v \in AnyUrl \ {u} : g[v] = f[v]  OBVIOUS
<1>2. ASSUME NEW x \in Range(g) \ {None} PROVE x \in (Range(f) \ {None}) \cup {c}
  <2>1. PICK v \in AnyUrl : g[v] = x  BY <1>1, <1>2 DEF Range
  <2> QED BY <1>1, <2>1, <1>2 DEF Range
<1>3. ASSUME NEW x \in (Range(f) \ {None}) \cup {c} PROVE x \in Range(g) \ {None}
  <2>1. CASE x = c  BY <1>1, <2>1 DEF Range
  <2>2. CASE x # c
    <3>1. PICK v \in AnyUrl : f[v] = x  BY <1>3, <2>2 DEF Range
    <3>2. v # u  BY <3>1, <1>3, <2>2
    <3> QED BY <1>1, <1>3, <3>1, <3>2, <2>2 DEF Range
  <2> QED BY <2>1, <2>2
<1> QED BY <1>2, <1>3

(* A client for a URL is one known for it or a new one. *)
LEMMA ResolvedClient ==
  ASSUME TypeOK, NEW i \in Invocations, NEW u \in AnyUrl, NEW c \in resolveDb(i, u)
  PROVE  /\ c \in Clients /\ c # None
         /\ Known(i, u) # None => c = Known(i, u)
         /\ Known(i, u) = None => clients[c].pc = "none"
<1>1. invocations[i].dbs \in [AnyUrl -> Clients \cup {None}]  BY DEF TypeOK, Store
<1>2. Known(i, u) \in Clients \cup {None}  BY <1>1 DEF Known, TypeOK
<1> QED BY <1>2, ScopeAssumption DEF resolveDb, Created, Spare

(* A store that has taken a resolved client. *)
LEMMA StoredStore ==
  ASSUME ScopeInv, NEW i \in Invocations, NEW u \in AnyUrl, NEW c \in resolveDb(i, u)
  PROVE  LET s == Stored(invocations[i], u, c) IN
         /\ s \in Store
         /\ s.owned = Range(s.dbs) \ {None}
         /\ isWorkerdRuntime => s.dbs = [invocations[i].dbs EXCEPT ![u] = c]
         /\ ~isWorkerdRuntime => s = invocations[i]
         /\ s.auths = invocations[i].auths /\ s.using = invocations[i].using
<1> DEFINE store == invocations[i]
<1>1. store \in Store /\ store.owned = Range(store.dbs) \ {None}  BY DEF ScopeInv, TypeOK
<1>2. c \in Clients /\ c # None  BY ResolvedClient DEF ScopeInv
<1>3. CASE isWorkerdRuntime /\ store.dbs[u] # c
  <2>1. store.dbs[u] = None  BY <1>3, ResolvedClient DEF ScopeInv, Known
  <2>2. store.dbs \in [AnyUrl -> Clients \cup {None}]  BY <1>1 DEF Store
  <2>3. Range([store.dbs EXCEPT ![u] = c]) \ {None} = (Range(store.dbs) \ {None}) \cup {c}
    BY <2>1, <2>2, <1>2, RangeExtends
  <2>4. Stored(store, u, c) = [store EXCEPT !.dbs[u] = c, !.owned = @ \cup {c}]  BY <1>3 DEF Stored
  <2> DEFINE s == [store EXCEPT !.dbs[u] = c, !.owned = @ \cup {c}]
  <2>5. s \in Store  BY <1>1, <1>2 DEF Store
  <2>6. s.owned = store.owned \cup {c} /\ s.dbs = [store.dbs EXCEPT ![u] = c]
        /\ s.auths = store.auths /\ s.using = store.using
    BY <1>1 DEF Store
  <2>7. s.owned = Range(s.dbs) \ {None}  BY <1>1, <2>3, <2>6
  <2> QED BY <1>3, <2>4, <2>5, <2>6, <2>7
<1>4. CASE ~(isWorkerdRuntime /\ store.dbs[u] # c)
  <2>1. Stored(store, u, c) = store  BY <1>4 DEF Stored
  <2>2. isWorkerdRuntime => store.dbs = [store.dbs EXCEPT ![u] = c]  BY <1>1, <1>4 DEF Store
  <2> QED BY <1>1, <2>1, <2>2
<1> QED BY <1>3, <1>4

(* A step that creates nothing and keeps what the stores hold. *)
LEMMA QuietStep ==
  ASSUME ScopeInv,
         \A i \in Invocations :
           /\ invocations'[i].dbs = invocations[i].dbs /\ invocations'[i].auths = invocations[i].auths
           /\ invocations'[i].using \in {invocations[i].using, None},
         \A c \in Clients :
           /\ Exists(c)' <=> Exists(c)
           /\ clients'[c].url = clients[c].url /\ clients'[c].by = clients[c].by,
         nodeCache' = nodeCache
  PROVE  Registered' /\ HeldSound'
<1>1. Registered'  BY DEF ScopeInv, Registered, isWorkerdRuntime
<1>2. ASSUME isWorkerdRuntime, NEW i \in Invocations PROVE StoreSound(i)'
  <2>1. StoreSound(i)  BY <1>2 DEF ScopeInv, HeldSound
  <2>2. \A c : OwnClient(i, c) => OwnClient(i, c)'  BY DEF OwnClient
  <2>3. \A c : OwnClient(i, c) => clients'[c].url = clients[c].url  BY DEF OwnClient
  <2> QED BY <2>1, <2>2, <2>3 DEF StoreSound
<1> QED BY <1>1, <1>2 DEF HeldSound, isWorkerdRuntime

(* A step that resolves the client c for the URL u. *)
LEMMA ResolvingStep ==
  ASSUME ScopeInv, NEW i \in Invocations, NEW u \in AnyUrl, NEW c \in resolveDb(i, u),
         Create(i, u, c),
         \A j \in Invocations \ {i} : invocations'[j] = invocations[j],
         isWorkerdRuntime => invocations'[i].dbs = [invocations[i].dbs EXCEPT ![u] = c],
         \A v \in AnyUrl : invocations'[i].auths[v] \in {invocations[i].auths[v], c},
         isWorkerdRuntime =>
           invocations'[i].using \in {c, invocations[i].using, invocations[i].auths[u]}
  PROVE  Registered' /\ HeldSound'
<1>1. /\ c \in Clients /\ c # None
      /\ Known(i, u) # None => c = Known(i, u)
      /\ Known(i, u) = None => clients[c].pc = "none"
  BY ResolvedClient DEF ScopeInv
<1>2. clients \in [Clients -> [pc: {"none", "open", "ending", "ended"}, url: AnyUrl \cup {None},
                              by: Invocations \cup {None}]]
  BY DEF ScopeInv, TypeOK
<1>3. clients[c].pc = "none" =>
        clients'[c] = [pc |-> "open", url |-> u, by |-> i]
  BY <1>1, <1>2 DEF Create
<1>4. \A d \in Clients : Exists(d) => clients'[d] = clients[d]  BY <1>1, <1>2 DEF Create, Exists
<1>5. \A d \in Clients : Exists(d)' => Exists(d) \/ d = c  BY <1>1, <1>2 DEF Create, Exists
<1>6. \A j \in Invocations : \A d : OwnClient(j, d) => OwnClientNext(j, d) /\ clients'[d] = clients[d]
  BY <1>4 DEF OwnClient, OwnClientNext, Exists
<1>7. CASE isWorkerdRuntime
  <2> DEFINE dbs == invocations[i].dbs
  <2>1. dbs \in [AnyUrl -> Clients \cup {None}] /\ dbs[u] = Known(i, u)
    BY <1>7 DEF ScopeInv, TypeOK, Store, Known
  <2>2. invocations'[i].dbs[u] = c /\ \A v \in AnyUrl \ {u} : invocations'[i].dbs[v] = dbs[v]
    BY <1>7, <2>1
  <2>3. StoreSound(i)  BY <1>7 DEF ScopeInv, HeldSound
  <2>4. OwnClientNext(i, c) /\ clients'[c].url = u
    <3>1. CASE dbs[u] # None
      <4>1. OwnClient(i, c) /\ clients[c].url = u  BY <3>1, <2>1, <1>1, <2>3 DEF StoreSound
      <4> QED BY <4>1, <1>6
    <3>2. CASE dbs[u] = None  BY <3>2, <2>1, <1>1, <1>3 DEF OwnClientNext, Exists
    <3> QED BY <3>1, <3>2
  <2>5. StoreSound(i)'
    <3>1. ASSUME NEW v \in AnyUrl PROVE
            invocations'[i].dbs[v] # None =>
              /\ OwnClientNext(i, invocations'[i].dbs[v])
              /\ clients'[invocations'[i].dbs[v]].url = v
      <4>1. CASE v = u  BY <4>1, <2>2, <2>4
      <4>2. CASE v # u
        <5>1. invocations'[i].dbs[v] = dbs[v]  BY <4>2, <2>2
        <5>2. dbs[v] # None => OwnClient(i, dbs[v]) /\ clients[dbs[v]].url = v  BY <2>3 DEF StoreSound
        <5> QED BY <5>1, <5>2, <1>6
      <4> QED BY <4>1, <4>2
    <3>2. ASSUME NEW v \in AnyUrl PROVE
            invocations'[i].auths[v] # None => OwnClientNext(i, invocations'[i].auths[v])
      <4>1. invocations[i].auths[v] # None => OwnClient(i, invocations[i].auths[v])
        BY <2>3 DEF StoreSound
      <4> QED BY <4>1, <2>4, <1>6
    <3>3. invocations'[i].using # None => OwnClientNext(i, invocations'[i].using)
      <4>1. invocations[i].using # None => OwnClient(i, invocations[i].using)
        BY <2>3 DEF StoreSound
      <4>2. invocations[i].auths[u] # None => OwnClient(i, invocations[i].auths[u])
        BY <2>3 DEF StoreSound
      <4> QED BY <4>1, <4>2, <1>7, <2>4, <1>6
    <3> QED BY <3>1, <3>2, <3>3 DEF StoreSound, OwnClient, OwnClientNext, Exists
  <2>6. ASSUME NEW j \in Invocations \ {i} PROVE StoreSound(j)'
    <3>1. StoreSound(j) /\ invocations'[j] = invocations[j]  BY <1>7 DEF ScopeInv, HeldSound
    <3> QED BY <3>1, <1>6 DEF StoreSound, OwnClient, OwnClientNext, Exists
  <2>7. Registered'
    <3> SUFFICES ASSUME NEW d \in Clients, Exists(d)'
                 PROVE  /\ clients'[d].url \in AnyUrl /\ clients'[d].by \in Invocations
                        /\ invocations'[clients'[d].by].dbs[clients'[d].url] = d
      BY <1>7 DEF Registered, isWorkerdRuntime
    <3>1. CASE Exists(d)
      <4>1. /\ clients[d].url \in AnyUrl /\ clients[d].by \in Invocations
            /\ invocations[clients[d].by].dbs[clients[d].url] = d /\ clients'[d] = clients[d]
        BY <3>1, <1>4, <1>7 DEF ScopeInv, Registered
      <4>2. CASE clients[d].by = i /\ clients[d].url = u
        <5>1. c = d  BY <4>1, <4>2, <2>1, <1>1, ScopeAssumption
        <5> QED BY <4>1, <4>2, <5>1, <2>2
      <4>3. CASE ~(clients[d].by = i /\ clients[d].url = u)  BY <4>1, <4>3, <2>2
      <4> QED BY <4>2, <4>3
    <3>2. CASE ~Exists(d)
      <4>1. d = c /\ clients'[c] = [pc |-> "open", url |-> u, by |-> i]
        BY <3>2, <1>3, <1>5 DEF Exists
      <4> QED BY <4>1, <2>2
    <3> QED BY <3>1, <3>2
  <2> QED BY <1>7, <2>5, <2>6, <2>7 DEF HeldSound, isWorkerdRuntime
<1>8. CASE ~isWorkerdRuntime
  <2>1. nodeCache \in [AnyUrl -> Clients \cup {None}] /\ nodeCache[u] = Known(i, u)
    BY <1>8 DEF ScopeInv, TypeOK, Known
  <2>2. nodeCache'[u] = c /\ \A v \in AnyUrl \ {u} : nodeCache'[v] = nodeCache[v]
    BY <1>8, <2>1 DEF Create
  <2> SUFFICES ASSUME NEW d \in Clients, Exists(d)'
               PROVE  /\ clients'[d].url \in AnyUrl /\ clients'[d].by \in Invocations
                      /\ nodeCache'[clients'[d].url] = d
    BY <1>8 DEF Registered, HeldSound, isWorkerdRuntime
  <2>3. CASE Exists(d)
    <3>1. /\ clients[d].url \in AnyUrl /\ clients[d].by \in Invocations
          /\ nodeCache[clients[d].url] = d /\ clients'[d] = clients[d]
      BY <2>3, <1>4, <1>8 DEF ScopeInv, Registered
    <3>2. CASE clients[d].url = u
      <4>1. c = d  BY <3>1, <3>2, <2>1, <1>1, ScopeAssumption
      <4> QED BY <3>1, <3>2, <4>1, <2>2
    <3>3. CASE clients[d].url # u  BY <3>1, <3>3, <2>2
    <3> QED BY <3>2, <3>3
  <2>4. CASE ~Exists(d)
    <3>1. d = c /\ clients'[c] = [pc |-> "open", url |-> u, by |-> i]
      BY <2>4, <1>3, <1>5 DEF Exists
    <3> QED BY <3>1, <2>2
  <2> QED BY <2>3, <2>4
<1> QED BY <1>7, <1>8

-----------------------------------------------------------------------------
(* The step of a handler or wrapper that touches no client. *)
LEMMA PlainStep ==
  ASSUME ScopeInv, NEW i \in Invocations, NEW r \in Store,
         invocations' = [invocations EXCEPT ![i] = r],
         r.pc # "none",
         r.dbs = invocations[i].dbs /\ r.auths = invocations[i].auths
           /\ r.owned = invocations[i].owned /\ r.using \in {invocations[i].using, None},
         UNCHANGED <<clients, nodeCache, cachedAuth>>
  PROVE  ScopeInv'
<1>1. invocations \in [Invocations -> Store]  BY DEF ScopeInv, TypeOK
<1>2. /\ invocations' \in [Invocations -> Store] /\ invocations'[i] = r
      /\ \A j \in Invocations \ {i} : invocations'[j] = invocations[j]
  BY <1>1
<1>3. TypeOK'  BY <1>2 DEF ScopeInv, TypeOK
<1>4. Blank'  BY <1>2 DEF ScopeInv, Blank
<1>5. Registered' /\ HeldSound'  BY <1>2, QuietStep DEF Exists
<1> QED BY <1>3, <1>4, <1>5 DEF ScopeInv

(* Arrive: an invocation begins with an empty store. *)
LEMMA ArriveOK ==
  ASSUME ScopeInv, NEW i \in Invocations, Arrive(i)
  PROVE  ScopeInv'
<1>1. invocations[i] = NoInvocation  BY DEF Arrive, ScopeInv, Blank
<1>2. PICK kind \in Kinds, url \in Urls \cup {None} :
        invocations' = [invocations EXCEPT ![i] =
          [NoInvocation EXCEPT !.pc = "next", !.kind = kind, !.url = url, !.at = 1, !.scope = "open"]]
  BY DEF Arrive
<1> DEFINE r == [NoInvocation EXCEPT !.pc = "next", !.kind = kind, !.url = url, !.at = 1,
                                     !.scope = "open"]
<1>3. NoInvocation \in Store  BY <1>1 DEF ScopeInv, TypeOK
<1>4. r \in Store  BY <1>3 DEF Store
<1>5. r.pc # "none" /\ r.dbs = NoInvocation.dbs /\ r.auths = NoInvocation.auths
        /\ r.owned = NoInvocation.owned /\ r.using = NoInvocation.using
  BY DEF NoInvocation
<1>6. UNCHANGED <<clients, nodeCache, cachedAuth>>  BY DEF Arrive
<1>7. invocations' = [invocations EXCEPT ![i] = r]  BY <1>2
<1>8. /\ r.dbs = invocations[i].dbs /\ r.auths = invocations[i].auths
      /\ r.owned = invocations[i].owned /\ r.using \in {invocations[i].using, None}
  BY <1>1, <1>5
<1> HIDE DEF r
<1> QED BY <1>4, <1>5, <1>6, <1>7, <1>8, PlainStep

(* Limit, Return and TimeOut; a statement that ends; UseDb without a URL.  *)
LEMMA HandlerMovesOK ==
  ASSUME ScopeInv, NEW i \in Invocations, Limit(i) \/ Return(i) \/ TimeOut(i) \/ StatementEnds(i)
  PROVE  ScopeInv'
<1>1. invocations[i] \in Store  BY DEF ScopeInv, TypeOK
<1>2. CASE Limit(i)
  <2> DEFINE r == [invocations[i] EXCEPT !.at = @ + 1]
  <2>1. r \in Store /\ r.pc = "next" /\ r.dbs = invocations[i].dbs /\ r.auths = invocations[i].auths
          /\ r.owned = invocations[i].owned /\ r.using = invocations[i].using
    BY <1>1, <1>2 DEF Store, Limit, Awaiting
  <2>2. invocations' = [invocations EXCEPT ![i] = r]  BY <1>2 DEF Limit
  <2> QED BY <1>2, <2>1, <2>2, PlainStep DEF Limit
<1>3. CASE Return(i)
  <2> DEFINE r == [invocations[i] EXCEPT !.pc = "done"]
  <2>1. r \in Store /\ r.pc = "done" /\ r.dbs = invocations[i].dbs /\ r.auths = invocations[i].auths
          /\ r.owned = invocations[i].owned /\ r.using = invocations[i].using
    BY <1>1 DEF Store
  <2>2. invocations' = [invocations EXCEPT ![i] = r]  BY <1>3 DEF Return
  <2> QED BY <1>3, <2>1, <2>2, PlainStep DEF Return
<1>4. CASE TimeOut(i)
  <2> DEFINE r == [invocations[i] EXCEPT !.timedOut = TRUE]
  <2>1. r \in Store /\ r.pc # "none" /\ r.dbs = invocations[i].dbs /\ r.auths = invocations[i].auths
          /\ r.owned = invocations[i].owned /\ r.using = invocations[i].using
    BY <1>1, <1>4 DEF Store, TimeOut
  <2>2. invocations' = [invocations EXCEPT ![i] = r]  BY <1>4 DEF TimeOut
  <2> QED BY <1>4, <2>1, <2>2, PlainStep DEF TimeOut
<1>5. CASE StatementEnds(i)
  <2>1. PICK ok \in BOOLEAN : invocations' = [invocations EXCEPT
          ![i].pc = IF ok THEN "next" ELSE "failed", ![i].using = None, ![i].at = @ + 1]
    BY <1>5 DEF StatementEnds
  <2> DEFINE r == [invocations[i] EXCEPT !.pc = IF ok THEN "next" ELSE "failed",
                                         !.using = None, !.at = @ + 1]
  <2> DEFINE outcome == IF ok THEN "next" ELSE "failed"
  <2>a. outcome \in {"next", "failed"} /\ invocations[i].at + 1 \in Nat  BY <1>1 DEF Store
  <2> HIDE DEF outcome
  <2>2. r \in Store
    <3>1. r = [invocations[i] EXCEPT !.pc = outcome, !.using = None, !.at = @ + 1]  BY DEF outcome
    <3> QED BY <1>1, <2>a, <3>1 DEF Store
  <2>3. r.pc # "none" /\ r.dbs = invocations[i].dbs /\ r.auths = invocations[i].auths
          /\ r.owned = invocations[i].owned /\ r.using = None
    <3>1. r = [[[invocations[i] EXCEPT !.pc = outcome] EXCEPT !.using = None] EXCEPT !.at = @ + 1]
      BY DEF outcome
    <3> HIDE DEF r
    <3>2. r.pc = outcome
      BY <1>1, <3>1 DEF Store
    <3>3. r.dbs = invocations[i].dbs /\ r.auths = invocations[i].auths
      BY <1>1, <3>1 DEF Store
    <3>4. r.owned = invocations[i].owned /\ r.using = None
      BY <1>1, <3>1 DEF Store
    <3> QED  BY <2>a, <3>2, <3>3, <3>4
  <2>4. invocations' = [invocations EXCEPT ![i] = r]  BY <2>1
  <2>5. UNCHANGED <<clients, nodeCache, cachedAuth>>  BY <1>5 DEF StatementEnds
  <2> HIDE DEF r
  <2> QED BY <2>2, <2>3, <2>4, <2>5, PlainStep
<1> QED BY <1>2, <1>3, <1>4, <1>5

(* CloseScope, Answer and EndClient: clients end, none is created. *)
LEMMA WrapperOK ==
  ASSUME ScopeInv, NEW i \in Invocations, Wrapper(i)
  PROVE  ScopeInv'
<1>1. invocations[i] \in Store /\ invocations \in [Invocations -> Store]  BY DEF ScopeInv, TypeOK
<1>2. invocations[i].pc # "none"
  BY <1>1 DEF Wrapper, CloseScope, Answer, Settled, ScopeInv, Blank, NoInvocation
<1>3. CASE CloseScope(i)
  <2> DEFINE r == [invocations[i] EXCEPT !.scope = "closing", !.closing = invocations[i].owned]
  <2>1. r \in Store /\ r.pc = invocations[i].pc /\ r.dbs = invocations[i].dbs
          /\ r.auths = invocations[i].auths /\ r.owned = invocations[i].owned
          /\ r.using = invocations[i].using
    BY <1>1 DEF Store
  <2>2. invocations' = [invocations EXCEPT ![i] = r]  BY <1>3 DEF CloseScope
  <2>3. invocations' \in [Invocations -> Store] /\ invocations'[i] = r
          /\ \A j \in Invocations \ {i} : invocations'[j] = invocations[j]
    BY <1>1, <2>1, <2>2
  <2>4. /\ clients' \in [Clients -> [pc: {"none", "open", "ending", "ended"},
                            url: AnyUrl \cup {None}, by: Invocations \cup {None}]]
        /\ \A c \in Clients : /\ Exists(c)' <=> Exists(c)
                              /\ clients'[c].url = clients[c].url /\ clients'[c].by = clients[c].by
    <3>1. clients \in [Clients -> [pc: {"none", "open", "ending", "ended"},
                                  url: AnyUrl \cup {None}, by: Invocations \cup {None}]]
      BY DEF ScopeInv, TypeOK
    <3> QED
      BY <1>3, <3>1 DEF CloseScope, EndAll, Exists
  <2>5. nodeCache' = nodeCache /\ cachedAuth' = cachedAuth  BY <1>3 DEF CloseScope
  <2>6. TypeOK'
    <3>1. \A j \in Invocations : invocations'[j].owned = Range(invocations'[j].dbs) \ {None}
      <4>1. \A j \in Invocations : invocations[j].owned = Range(invocations[j].dbs) \ {None}
        BY DEF ScopeInv, TypeOK
      <4>2. \A j \in Invocations : invocations'[j].owned = invocations[j].owned
                                 /\ invocations'[j].dbs = invocations[j].dbs
        BY <2>1, <2>3
      <4> QED BY <4>1, <4>2
    <3> QED BY <2>3, <2>4, <2>5, <3>1 DEF ScopeInv, TypeOK
  <2>7. Blank'  BY <1>2, <2>1, <2>3 DEF ScopeInv, Blank
  <2>8. Registered' /\ HeldSound'  BY <2>1, <2>3, <2>4, <2>5, QuietStep
  <2> QED BY <2>6, <2>7, <2>8 DEF ScopeInv
<1>4. CASE Answer(i)
  <2> DEFINE r == [invocations[i] EXCEPT !.scope = "answered"]
  <2>1. r \in Store /\ r.pc # "none" /\ r.dbs = invocations[i].dbs /\ r.auths = invocations[i].auths
          /\ r.owned = invocations[i].owned /\ r.using = invocations[i].using
    BY <1>1, <1>2 DEF Store
  <2>2. invocations' = [invocations EXCEPT ![i] = r]  BY <1>4 DEF Answer
  <2> QED BY <1>4, <2>1, <2>2, PlainStep DEF Answer
<1> QED BY <1>3, <1>4 DEF Wrapper

(* EndClient: a pool with nothing checked out is through. *)
LEMMA EndClientOK ==
  ASSUME ScopeInv, NEW c \in Clients, EndClient(c)
  PROVE  ScopeInv'
<1>1. /\ clients' \in [Clients -> [pc: {"none", "open", "ending", "ended"},
                          url: AnyUrl \cup {None}, by: Invocations \cup {None}]]
      /\ \A d \in Clients : /\ Exists(d)' <=> Exists(d)
                            /\ clients'[d].url = clients[d].url /\ clients'[d].by = clients[d].by
  BY DEF EndClient, Exists, ScopeInv, TypeOK
<1>2. UNCHANGED <<invocations, nodeCache, cachedAuth>>  BY DEF EndClient
<1>3. TypeOK'  BY <1>1, <1>2 DEF ScopeInv, TypeOK
<1>4. Blank'  BY <1>2 DEF ScopeInv, Blank
<1>5. Registered' /\ HeldSound'  BY <1>1, <1>2, QuietStep
<1> QED BY <1>3, <1>4, <1>5 DEF ScopeInv

(* A statement begun on a store s that has taken the client d for the URL. *)
LEMMA StartedOK ==
  ASSUME ScopeInv, NEW i \in Invocations, NEW u \in AnyUrl, NEW d \in resolveDb(i, u),
         NEW s \in Store, s.owned = Range(s.dbs) \ {None},
         isWorkerdRuntime => s.dbs = [invocations[i].dbs EXCEPT ![u] = d],
         \A v \in AnyUrl : s.auths[v] \in {invocations[i].auths[v], d},
         s.using = invocations[i].using,
         NEW c \in Clients, isWorkerdRuntime => c \in {d, invocations[i].auths[u]},
         invocations' = [invocations EXCEPT ![i] = Begin(s, c)],
         Create(i, u, d),
         cachedAuth' \in [url: AnyUrl \cup {None}, client: Clients \cup {None}]
  PROVE  ScopeInv'
<1> DEFINE r == Begin(s, c)
<1>1. /\ r \in Store /\ r.pc # "none" /\ r.owned = Range(r.dbs) \ {None}
      /\ r.dbs = s.dbs /\ r.auths = s.auths /\ r.using \in {c, s.using}
  <2>1. CASE clients[c].pc \in {"none", "open"}
    <3>1. r = [s EXCEPT !.pc = "using", !.using = c]  BY <2>1 DEF Begin
    <3> QED BY <3>1 DEF Store
  <2>2. CASE clients[c].pc \notin {"none", "open"}
    <3>1. r = [s EXCEPT !.pc = "failed"]  BY <2>2 DEF Begin
    <3> QED BY <3>1 DEF Store
  <2> QED BY <2>1, <2>2
<1>2. invocations' = [invocations EXCEPT ![i] = r]  OBVIOUS
<1> HIDE DEF r
<1>3. /\ invocations' \in [Invocations -> Store] /\ invocations'[i] = r
      /\ \A j \in Invocations \ {i} : invocations'[j] = invocations[j]
  BY <1>1, <1>2 DEF ScopeInv, TypeOK
<1>4. d \in Clients  BY ResolvedClient DEF ScopeInv
<1>5. /\ clients' \in [Clients -> [pc: {"none", "open", "ending", "ended"},
                          url: AnyUrl \cup {None}, by: Invocations \cup {None}]]
      /\ nodeCache' \in [AnyUrl -> Clients \cup {None}]
  BY <1>4 DEF Create, ScopeInv, TypeOK
<1>6. TypeOK'
  <2>1. \A j \in Invocations \ {i} : invocations'[j].owned = Range(invocations'[j].dbs) \ {None}
    BY <1>3 DEF ScopeInv, TypeOK
  <2>2. invocations'[i].owned = Range(invocations'[i].dbs) \ {None}  BY <1>1, <1>3
  <2> QED BY <1>3, <1>5, <2>1, <2>2 DEF TypeOK
<1>7. Blank'  BY <1>1, <1>3 DEF ScopeInv, Blank
<1>8. Registered' /\ HeldSound'
  <2>1. isWorkerdRuntime => invocations'[i].dbs = [invocations[i].dbs EXCEPT ![u] = d]  BY <1>1, <1>3
  <2>2. \A v \in AnyUrl : invocations'[i].auths[v] \in {invocations[i].auths[v], d}  BY <1>1, <1>3
  <2>3. isWorkerdRuntime => invocations'[i].using \in {d, invocations[i].using, invocations[i].auths[u]}
    BY <1>1, <1>3
  <2> QED BY <2>1, <2>2, <2>3, <1>3, ResolvingStep
<1> QED BY <1>6, <1>7, <1>8 DEF ScopeInv

(* UseDb: getDb, then a statement on its client. *)
LEMMA UseDbOK ==
  ASSUME ScopeInv, NEW i \in Invocations, UseDb(i)
  PROVE  ScopeInv'
<1> DEFINE u == invocations[i].url
<1>1. invocations[i] \in Store /\ invocations \in [Invocations -> Store] /\ invocations[i].pc = "next"
  BY DEF ScopeInv, TypeOK, UseDb, Awaiting
<1>2. CASE u = None
  <2> DEFINE r == [invocations[i] EXCEPT !.pc = "failed"]
  <2>1. r \in Store /\ r.pc = "failed" /\ r.dbs = invocations[i].dbs /\ r.auths = invocations[i].auths
          /\ r.owned = invocations[i].owned /\ r.using = invocations[i].using
    BY <1>1 DEF Store
  <2>2. invocations' = [invocations EXCEPT ![i] = r] /\ UNCHANGED <<clients, nodeCache, cachedAuth>>
    BY <1>2 DEF UseDb
  <2> QED BY <2>1, <2>2, PlainStep
<1>3. CASE u # None
  <2>1. PICK c \in resolveDb(i, u) :
          /\ invocations' = [invocations EXCEPT ![i] = Begin(Stored(@, u, c), c)]
          /\ Create(i, u, c) /\ UNCHANGED cachedAuth
    BY <1>3 DEF UseDb
  <2>2. u \in AnyUrl  BY <1>1, <1>3 DEF Store, AnyUrl
  <2> DEFINE s == Stored(invocations[i], u, c)
  <2>3. /\ s \in Store /\ s.owned = Range(s.dbs) \ {None}
        /\ isWorkerdRuntime => s.dbs = [invocations[i].dbs EXCEPT ![u] = c]
        /\ s.auths = invocations[i].auths /\ s.using = invocations[i].using
    BY <2>2, StoredStore
  <2>4. c \in Clients  BY <2>2, ResolvedClient DEF ScopeInv
  <2>5. invocations' = [invocations EXCEPT ![i] = Begin(s, c)]  BY <2>1
  <2>6. cachedAuth' \in [url: AnyUrl \cup {None}, client: Clients \cup {None}]
    BY <2>1 DEF ScopeInv, TypeOK
  <2>7. Create(i, u, c)  BY <2>1
  <2> HIDE DEF s
  <2>8. \A v \in AnyUrl : s.auths[v] \in {invocations[i].auths[v], c}  BY <2>3
  <2> QED BY <2>2, <2>3, <2>4, <2>5, <2>6, <2>7, <2>8, StartedOK
<1> QED BY <1>2, <1>3

(* UseAuth: getAuth, then a statement of the instance it returns. *)
LEMMA UseAuthOK ==
  ASSUME ScopeInv, NEW i \in Invocations, UseAuth(i)
  PROVE  ScopeInv'
<1> DEFINE u == AuthUrl(i)
<1>1. invocations[i] \in Store  BY DEF ScopeInv, TypeOK
<1>2. u \in AnyUrl  BY <1>1 DEF Store, AnyUrl, AuthUrl
<1>3. PICK db \in getDbForAuth(i, u) :
        LET c == IF KnownAuth(i, u) = None THEN db ELSE KnownAuth(i, u)
            store == Stored(invocations[i], u, db)
        IN
        /\ invocations' = [invocations EXCEPT ![i] =
             Begin(IF isWorkerdRuntime THEN [store EXCEPT !.auths[u] = c] ELSE store, c)]
        /\ cachedAuth' = IF isWorkerdRuntime THEN cachedAuth ELSE [url |-> u, client |-> c]
        /\ Create(i, u, db)
  BY DEF UseAuth
<1>4. db \in resolveDb(i, u)  BY DEF getDbForAuth
<1>5. db \in Clients /\ db # None  BY <1>2, <1>4, ResolvedClient DEF ScopeInv
<1> DEFINE c == IF KnownAuth(i, u) = None THEN db ELSE KnownAuth(i, u)
           store == Stored(invocations[i], u, db)
           s == IF isWorkerdRuntime THEN [store EXCEPT !.auths[u] = c] ELSE store
<1>6. c \in Clients /\ (isWorkerdRuntime => c \in {db, invocations[i].auths[u]}
                                          /\ (invocations[i].auths[u] # None => c = invocations[i].auths[u]))
  <2>1. isWorkerdRuntime => KnownAuth(i, u) = invocations[i].auths[u]
          /\ invocations[i].auths[u] \in Clients \cup {None}
    BY <1>1, <1>2 DEF KnownAuth, Store
  <2>2. ~isWorkerdRuntime => KnownAuth(i, u) \in Clients \cup {None}
    BY DEF KnownAuth, ScopeInv, TypeOK
  <2> QED BY <1>5, <2>1, <2>2
<1>7. /\ store \in Store /\ store.owned = Range(store.dbs) \ {None}
      /\ isWorkerdRuntime => store.dbs = [invocations[i].dbs EXCEPT ![u] = db]
      /\ store.auths = invocations[i].auths /\ store.using = invocations[i].using
  BY <1>2, <1>4, StoredStore
<1>8. invocations' = [invocations EXCEPT ![i] = Begin(s, c)] /\ Create(i, u, db)
      /\ cachedAuth' = IF isWorkerdRuntime THEN cachedAuth ELSE [url |-> u, client |-> c]
  BY <1>3
<1>9. cachedAuth' \in [url: AnyUrl \cup {None}, client: Clients \cup {None}]
  BY <1>2, <1>6, <1>8 DEF ScopeInv, TypeOK
<1> HIDE DEF c, store, u
<1>10. s \in Store /\ s.owned = store.owned /\ s.dbs = store.dbs /\ s.using = store.using
  BY <1>2, <1>6, <1>7 DEF Store
<1>11. \A v \in AnyUrl : s.auths[v] \in {invocations[i].auths[v], db}
  <2> SUFFICES ASSUME NEW v \in AnyUrl PROVE s.auths[v] \in {invocations[i].auths[v], db}  OBVIOUS
  <2>1. CASE isWorkerdRuntime /\ v = u
    <3>1. s.auths[v] = c  BY <2>1, <1>2, <1>7 DEF Store
    <3> QED BY <2>1, <3>1, <1>6
  <2>2. CASE ~(isWorkerdRuntime /\ v = u)
    <3>1. s.auths[v] = store.auths[v]  BY <2>2, <1>2, <1>7 DEF Store
    <3> QED BY <3>1, <1>7
  <2> QED BY <2>1, <2>2
<1>12. s.owned = Range(s.dbs) \ {None}
       /\ (isWorkerdRuntime => s.dbs = [invocations[i].dbs EXCEPT ![u] = db])
       /\ s.using = invocations[i].using
  BY <1>7, <1>10
<1> HIDE DEF s
<1> QED BY <1>2, <1>4, <1>6, <1>8, <1>9, <1>10, <1>11, <1>12, StartedOK

(* Every step of every handler, wrapper and pool keeps the invariant. *)
LEMMA StepOK ==
  ASSUME ScopeInv, [Next]_vars
  PROVE  ScopeInv'
<1>1. ASSUME NEW i \in Invocations, Arrive(i) PROVE ScopeInv'  BY <1>1, ArriveOK
<1>2. ASSUME NEW i \in Invocations, Handler(i) PROVE ScopeInv'
  BY <1>2, HandlerMovesOK, UseDbOK, UseAuthOK DEF Handler
<1>3. ASSUME NEW i \in Invocations, StatementEnds(i) \/ TimeOut(i) PROVE ScopeInv'
  BY <1>3, HandlerMovesOK
<1>4. ASSUME NEW i \in Invocations, Wrapper(i) PROVE ScopeInv'  BY <1>4, WrapperOK
<1>5. ASSUME NEW c \in Clients, EndClient(c) PROVE ScopeInv'  BY <1>5, EndClientOK
<1>6. CASE UNCHANGED vars
  BY <1>6 DEF vars, ScopeInv, TypeOK, Registered, HeldSound, StoreSound, OwnClient, Exists, Blank,
              isWorkerdRuntime
<1> QED BY <1>1, <1>2, <1>3, <1>4, <1>5, <1>6 DEF Next

(* Before the first invocation there is nothing to disagree about. *)
LEMMA InitOK == Init => ScopeInv
<1> SUFFICES ASSUME Init PROVE ScopeInv  OBVIOUS
<1>1. NoInvocation \in Store  BY DEF NoInvocation, Store
<1>2. \A i \in Invocations : invocations[i] = NoInvocation  BY DEF Init
<1>3. NoInvocation.owned = Range(NoInvocation.dbs) \ {None}  BY DEF NoInvocation, Range
<1>4. TypeOK  BY <1>1, <1>2, <1>3 DEF TypeOK, Init, NoClient
<1>5. Registered  BY DEF Registered, Exists, Init, NoClient
<1>6. HeldSound
  <2> SUFFICES ASSUME NEW i \in Invocations PROVE StoreSound(i)  BY DEF HeldSound
  <2>1. /\ invocations[i].using = None
        /\ \A u \in AnyUrl : invocations[i].dbs[u] = None /\ invocations[i].auths[u] = None
    BY <1>2 DEF NoInvocation
  <2> QED BY <2>1 DEF StoreSound
<1>7. Blank  BY <1>2 DEF Blank
<1> QED BY <1>4, <1>5, <1>6, <1>7 DEF ScopeInv

-----------------------------------------------------------------------------
(* The inductive invariant: stores and clients agree at every moment. *)
THEOREM ScopeInvariant == Spec => []ScopeInv
<1> QED BY InitOK, StepOK, PTL DEF Spec

(* Types, and a scope owns exactly the clients its store holds, so that    *)
(* withDbScope closes all that were created before it ends.                *)
THEOREM ScopeTypes == Spec => []TypeOK
<1> QED BY ScopeInvariant, PTL DEF ScopeInv

(* On Workers no invocation ever holds or uses the client of another: not  *)
(* through getDb, not inside a Better Auth instance, not after a timeout.  *)
THEOREM NoForeignClients == Spec => []NoForeignIO
<1>1. ScopeInv => NoForeignIO
  <2> SUFFICES ASSUME ScopeInv, isWorkerdRuntime, NEW i \in Invocations,
                      NEW c \in (Range(invocations[i].dbs) \cup Range(invocations[i].auths)
                                  \cup {invocations[i].using}) \ {None}
               PROVE  clients[c].by = i
    BY DEF NoForeignIO, isWorkerdRuntime
  <2>1. StoreSound(i)  BY DEF ScopeInv, HeldSound
  <2>2. invocations[i].dbs \in [AnyUrl -> Clients \cup {None}]
        /\ invocations[i].auths \in [AnyUrl -> Clients \cup {None}]
    BY DEF ScopeInv, TypeOK, Store
  <2>3. OwnClient(i, c)  BY <2>1, <2>2 DEF StoreSound, Range
  <2> QED BY <2>3 DEF OwnClient
<1> QED BY <1>1, ScopeInvariant, PTL

(* One client per URL serves an invocation on Workers, and the process on  *)
(* Node: the hook, Better Auth and the services never open a second one.   *)
THEOREM ClientsAreShared == Spec => []OneClientPerUrl
<1>1. ScopeInv => OneClientPerUrl
  BY DEF ScopeInv, Registered, Exists, OneClientPerUrl, isWorkerdRuntime
<1> QED BY <1>1, ScopeInvariant, PTL

(* On Node an invocation owns no client, so no scope ends one.             *)
WarmInv ==
  ~isWorkerdRuntime =>
    /\ \A i \in Invocations : invocations[i].owned = {}
    /\ \A c \in Clients : clients[c].pc \in {"none", "open"}

(* A step of an invocation leaves it without clients of its own.           *)
LEMMA WarmStep ==
  ASSUME ScopeInv, WarmInv, ~isWorkerdRuntime, [Next]_vars
  PROVE  WarmInv'
<1>1. /\ \A i \in Invocations : invocations[i] \in Store /\ invocations[i].owned = {}
      /\ \A c \in Clients : clients[c].pc \in {"none", "open"}
      /\ invocations \in [Invocations -> Store]
      /\ clients \in [Clients -> [pc: {"none", "open", "ending", "ended"}, url: AnyUrl \cup {None},
                                 by: Invocations \cup {None}]]
  BY DEF ScopeInv, TypeOK, WarmInv
<1>2. ASSUME NEW i \in Invocations, NEW s, s.owned = {},
             invocations' = [invocations EXCEPT ![i] = s],
             \A d \in Clients : clients'[d].pc \in {"none", "open"}
      PROVE  WarmInv'
  BY <1>1, <1>2 DEF WarmInv
<1>3. ASSUME NEW i \in Invocations, NEW c
      PROVE  Begin(invocations[i], c).owned = {}
  BY <1>1 DEF Begin, Store
<1>4. ASSUME NEW i \in Invocations, NEW u \in AnyUrl, NEW c \in Clients, Create(i, u, c)
      PROVE  \A d \in Clients : clients'[d].pc \in {"none", "open"}
  BY <1>1, <1>4 DEF Create
<1>5. ASSUME NEW i \in Invocations, Arrive(i) \/ Limit(i) \/ StatementEnds(i) \/ Return(i)
               \/ TimeOut(i) \/ Answer(i)
      PROVE  WarmInv'
  <2>1. clients' = clients  BY <1>5 DEF Arrive, Limit, StatementEnds, Return, TimeOut, Answer
  <2>2. CASE Arrive(i)
    <3>1. PICK kind \in Kinds, url \in Urls \cup {None} :
            invocations' = [invocations EXCEPT ![i] =
              [NoInvocation EXCEPT !.pc = "next", !.kind = kind, !.url = url, !.at = 1, !.scope = "open"]]
      BY <2>2 DEF Arrive
    <3> DEFINE s == [NoInvocation EXCEPT !.pc = "next", !.kind = kind, !.url = url, !.at = 1,
                                         !.scope = "open"]
    <3>2. s.owned = {}  BY DEF NoInvocation
    <3> QED BY <1>1, <1>2, <2>1, <3>1, <3>2
  <2>3. CASE ~Arrive(i)
    <3> DEFINE Same == \A j \in Invocations : invocations'[j].owned = invocations[j].owned
    <3>1. ASSUME Limit(i) PROVE Same  BY <1>1, <3>1 DEF Limit, Store
    <3>2. ASSUME Return(i) PROVE Same  BY <1>1, <3>2 DEF Return, Store
    <3>3. ASSUME TimeOut(i) PROVE Same  BY <1>1, <3>3 DEF TimeOut, Store
    <3>4. ASSUME Answer(i) PROVE Same  BY <1>1, <3>4 DEF Answer, Store
    <3>5. ASSUME StatementEnds(i) PROVE Same
      <4>1. PICK ok \in BOOLEAN : invocations' = [invocations EXCEPT
              ![i].pc = IF ok THEN "next" ELSE "failed", ![i].using = None, ![i].at = @ + 1]
        BY <3>5 DEF StatementEnds
      <4> QED BY <1>1, <4>1 DEF Store
    <3>6. Same  BY <1>5, <2>3, <3>1, <3>2, <3>3, <3>4, <3>5
    <3> QED BY <1>1, <2>1, <3>6 DEF WarmInv
  <2> QED BY <2>2, <2>3
<1>6. ASSUME NEW i \in Invocations, UseDb(i) PROVE WarmInv'
  <2>1. CASE invocations[i].url = None
    <3>1. /\ clients' = clients
          /\ invocations' = [invocations EXCEPT ![i].pc = "failed"]
      BY <1>6, <2>1 DEF UseDb
    <3>2. \A j \in Invocations : invocations'[j].owned = invocations[j].owned
      BY <1>1, <3>1 DEF Store
    <3> QED BY <1>1, <3>1, <3>2 DEF WarmInv
  <2>2. CASE invocations[i].url # None
    <3>1. invocations[i].url \in AnyUrl  BY <1>1, <2>2 DEF Store, AnyUrl
    <3>2. PICK c \in resolveDb(i, invocations[i].url) :
            /\ invocations' = [invocations EXCEPT ![i] =
                 Begin(Stored(invocations[i], invocations[i].url, c), c)]
            /\ Create(i, invocations[i].url, c)
      BY <1>6, <2>2 DEF UseDb
    <3>3. c \in Clients  BY <3>1, <3>2, ResolvedClient DEF ScopeInv
    <3>4. Stored(invocations[i], invocations[i].url, c) = invocations[i]  BY DEF Stored
    <3> QED BY <1>2, <1>3, <1>4, <3>1, <3>2, <3>3, <3>4
  <2> QED BY <2>1, <2>2
<1>7. ASSUME NEW i \in Invocations, UseAuth(i) PROVE WarmInv'
  <2>1. AuthUrl(i) \in AnyUrl  BY <1>1 DEF AuthUrl, Store, AnyUrl
  <2>2. PICK db \in resolveDb(i, AuthUrl(i)) : \E c :
          /\ invocations' = [invocations EXCEPT ![i] =
               Begin(Stored(invocations[i], AuthUrl(i), db), c)]
          /\ Create(i, AuthUrl(i), db)
    BY <1>7 DEF UseAuth, getDbForAuth
  <2>3. db \in Clients  BY <2>1, <2>2, ResolvedClient DEF ScopeInv
  <2>4. Stored(invocations[i], AuthUrl(i), db) = invocations[i]  BY DEF Stored
  <2> QED BY <1>2, <1>3, <1>4, <2>1, <2>2, <2>3, <2>4
<1>8. ASSUME NEW i \in Invocations, CloseScope(i) PROVE WarmInv'
  <2>1. invocations[i].owned = {} /\ EndAll({})  BY <1>1, <1>8 DEF CloseScope
  <2>2. \A d \in Clients : clients'[d] = clients[d]  BY <2>1 DEF EndAll
  <2>3. \A j \in Invocations : invocations'[j].owned = invocations[j].owned
    BY <1>1, <1>8 DEF CloseScope, Store
  <2> QED BY <1>1, <2>2, <2>3 DEF WarmInv
<1>9. ASSUME NEW c \in Clients, EndClient(c) PROVE WarmInv'
  BY <1>1, <1>9 DEF EndClient
<1>10. CASE UNCHANGED vars  BY <1>10 DEF vars, WarmInv, isWorkerdRuntime
<1> QED BY <1>5, <1>6, <1>7, <1>8, <1>9, <1>10 DEF Next, Handler, Wrapper

(* The warm memo of Node never closes a client under the invocations that  *)
(* share it, however they end.                                             *)
THEOREM WarmClients == Spec => []WarmClientsStay
<1>1. Init => WarmInv  BY DEF Init, WarmInv, NoInvocation, NoClient
<1>2. ScopeInv /\ WarmInv /\ [Next]_vars => WarmInv'
  <2>1. CASE ~isWorkerdRuntime  BY <2>1, WarmStep
  <2>2. CASE isWorkerdRuntime  BY <2>2 DEF WarmInv, isWorkerdRuntime
  <2> QED BY <2>1, <2>2
<1>3. WarmInv => WarmClientsStay  BY DEF WarmInv, WarmClientsStay, isWorkerdRuntime
<1> QED BY <1>1, <1>2, <1>3, ScopeInvariant, PTL DEF Spec
=============================================================================
