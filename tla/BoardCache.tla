----------------------------- MODULE BoardCache -----------------------------
(***************************************************************************)
(* The boards in the browser of one player: the ['leaderboard', period]    *)
(* queries that the leaderboard page (routes/leaderboard/+page.svelte) and *)
(* the result block of the play page (routes/play/+page.svelte) share.     *)
(* Data is fresh for a while after it came, and a query is fetched when a  *)
(* page begins to look at it, unless it is fresh.  Of a board only the     *)
(* period it was asked for is kept.                                        *)
(***************************************************************************)
EXTENDS Naturals

CONSTANT None

Periods == {"today", "yesterday"}

CacheAssumption == None \notin Periods

VARIABLES
  game,    \* the status of the game the play page has cached
  page,    \* the page shown
  tab,     \* `value': the tab selected on the leaderboard page
  online,  \* onlineManager: does the browser say it is online
  query    \* by period: the board cached, its freshness, the fetch

vars == <<game, page, tab, online, query>>

(* `reads' is the queryFn last given to the query: that of the play page   *)
(* asks for "today", that of the leaderboard page for the tab selected     *)
(* when it runs ("tab"), and goes on reading the last tab of a page that   *)
(* was left.  `asks' is the period of the request, `paused' whether the    *)
(* fetch had to wait for the browser to be online before it could ask.     *)
NoQuery == [data |-> None, fresh |-> FALSE, failed |-> FALSE, pc |-> "none", tries |-> 0,
            asks |-> None, paused |-> FALSE, reads |-> None]

Enabled(g) == g = "COMPLETED"

(* The query a page observes, and the period it wants a board of.          *)
Observed(p, t) == IF p = "play" THEN "today" ELSE t

Wants(p, t, g) == IF p = "play" /\ ~Enabled(g) THEN None ELSE Observed(p, t)

Asked(q, t) == IF q.reads = "tab" THEN t ELSE q.reads

(* A fetch asks at once, or waits for the browser to be online.            *)
Fetch(q, t) ==
  [q EXCEPT !.pc = IF online THEN "sent" ELSE "paused", !.tries = 1, !.failed = FALSE,
            !.asks = IF online THEN Asked(q, t) ELSE None, !.paused = ~online]

(* A query looked at is fetched when it is not fresh; a fetch that is      *)
(* under way is joined.                                                    *)
Looked(q, t) == IF (q.data = None \/ ~q.fresh) /\ q.pc = "none" THEN Fetch(q, t) ELSE q

(* A query nobody observes any more gives up a first fetch that has not    *)
(* asked yet.                                                              *)
Unobserved(q) == IF q.pc = "paused" /\ q.data = None THEN [q EXCEPT !.pc = "none"] ELSE q

(* A wrong variant: both pages share one queryFn.                          *)
SharedReads(k, p, n) == IF k = n THEN "tab" ELSE query[k].reads

(* The queryFn a query has once the page p observes n: the closure of a    *)
(* leaderboard page that is left keeps its last tab.                       *)
Reads(k, p, n) ==
  CASE k = n -> IF p = "play" THEN "today" ELSE "tab"
    [] k # n /\ p = "play" /\ query[k].reads = "tab" -> tab
    [] OTHER -> query[k].reads

Look(p, t, g) ==
  LET now    == Observed(p, t)
      period == Wants(p, t, g)
      begins == period # None /\ (p # page \/ period # Wants(page, tab, game))
  IN
  /\ page' = p /\ tab' = t /\ game' = g
  /\ query' = [k \in Periods |->
       LET read == [query[k] EXCEPT !.reads = Reads(k, p, now)] IN
       CASE k = now /\ begins -> Looked(read, t)
         [] k # now /\ k = Observed(page, tab) -> Unobserved(read)
         [] OTHER -> read]

Init ==
  /\ game = "none"
  /\ page = "play"
  /\ tab = "today"
  /\ online = TRUE
  /\ query = [k \in Periods |-> [NoQuery EXCEPT !.reads = IF k = "today" THEN k ELSE None]]

-----------------------------------------------------------------------------
(* The pages *)

(* The play page gets the current game, on its mount or on a refetch: a    *)
(* running one, a completed one, or that of a new day.                     *)
GameArrives ==
  /\ page = "play"
  /\ \E g \in {"ACTIVE", "COMPLETED"} : Look(page, tab, g)
  /\ UNCHANGED online

(* The last guess of the running game solves it. *)
Solve == page = "play" /\ game = "ACTIVE" /\ Look(page, tab, "COMPLETED") /\ UNCHANGED online

GoToBoard == page = "play" /\ Look("board", "today", game) /\ UNCHANGED online
GoToPlay  == page = "board" /\ Look("play", tab, game) /\ UNCHANGED online

SelectTab(t) == page = "board" /\ t # tab /\ Look(page, t, game) /\ UNCHANGED online

Elsewhere == <<game, page, tab, online>>

(* "Try again", and the refetch when the browser is back online. *)
Refetch(k) ==
  /\ k = Wants(page, tab, game)
  /\ query[k].failed \/ ~query[k].fresh
  /\ query[k].pc = "none"
  /\ query' = [query EXCEPT ![k] = Fetch(@, tab)]
  /\ UNCHANGED Elsewhere

GoOffline == online /\ online' = FALSE /\ UNCHANGED <<game, page, tab, query>>

(* What was paused goes on, observed or not. *)
GoOnline ==
  /\ ~online /\ online' = TRUE
  /\ query' = [k \in Periods |->
       IF query[k].pc = "paused"
         THEN [query[k] EXCEPT !.pc = "sent", !.asks = Asked(query[k], tab)] ELSE query[k]]
  /\ UNCHANGED <<game, page, tab>>

-----------------------------------------------------------------------------
(* The queries *)

(* The answer: what is kept of a board is the period it was asked for, and *)
(* whether its fetch had been paused.                                      *)
Answered(q) ==
  [NoQuery EXCEPT !.data = [period |-> q.asks, paused |-> q.paused], !.fresh = TRUE,
                  !.reads = q.reads]

Arrive(k) ==
  /\ query[k].pc = "sent"
  /\ query' = [query EXCEPT ![k] = Answered(@)]
  /\ UNCHANGED Elsewhere

(* Data that came earlier is kept. *)
Failed(q) == [NoQuery EXCEPT !.data = q.data, !.failed = TRUE, !.reads = q.reads]

(* The second attempt is made for a page that still wants it. *)
Retried(k) == k = Wants(page, tab, game)

AttemptFails(k) ==
  /\ query[k].pc = "sent"
  /\ query' = [query EXCEPT ![k] =
       IF query[k].tries = 1 /\ Retried(k) THEN [query[k] EXCEPT !.pc = "waiting"]
                                          ELSE Failed(@)]
  /\ UNCHANGED Elsewhere

(* After a delay, and once the browser is online, the queryFn runs again.  *)
Retry(k) ==
  /\ query[k].pc = "waiting" /\ online
  /\ query' = [query EXCEPT ![k] =
       IF Retried(k) THEN [query[k] EXCEPT !.pc = "sent", !.tries = 2, !.asks = Asked(query[k], tab)]
                     ELSE Failed(@)]
  /\ UNCHANGED Elsewhere

(* staleTime passes. *)
Stale(k) ==
  /\ query[k].fresh
  /\ query' = [query EXCEPT ![k].fresh = FALSE]
  /\ UNCHANGED Elsewhere

(* gcTime passes. *)
Collect(k) ==
  /\ k # Observed(page, tab) /\ query[k].pc = "none" /\ ~query[k].fresh
  /\ query' = [query EXCEPT ![k] = NoQuery]
  /\ UNCHANGED Elsewhere

Next ==
  \/ GameArrives \/ Solve \/ GoToBoard \/ GoToPlay \/ GoOffline \/ GoOnline
  \/ \E t \in Periods : SelectTab(t)
  \/ \E k \in Periods :
       \/ Refetch(k) \/ Arrive(k) \/ AttemptFails(k) \/ Retry(k)
       \/ Stale(k) \/ Collect(k)

Spec == Init /\ [][Next]_vars

-----------------------------------------------------------------------------
(* Properties *)

Boards == [period: Periods, paused: BOOLEAN]

Shown == query[Observed(page, tab)].data

(* Types; a fetch that is under way is not a failed one. *)
CacheTypeOK ==
  /\ game \in {"none", "ACTIVE", "COMPLETED"}
  /\ page \in {"play", "board"} /\ tab \in Periods /\ online \in BOOLEAN
  /\ \A k \in Periods :
       /\ query[k].data \in Boards \cup {None}
       /\ query[k].fresh \in BOOLEAN /\ query[k].failed \in BOOLEAN
       /\ query[k].pc \in {"none", "paused", "sent", "waiting"}
       /\ query[k].tries \in 0..2 /\ query[k].paused \in BOOLEAN
       /\ query[k].asks \in Periods \cup {None} /\ query[k].reads \in Periods \cup {"tab", None}
       /\ query[k].pc # "none" => ~query[k].failed

(* A tab, and the result block of the play page, show a board of their own *)
(* period: a queryFn that reads the tab selected when it runs may run      *)
(* again after the tab was left, but only for a page that looks.  The      *)
(* exception is a fetch that was paused while the browser was offline: it  *)
(* asks for whatever tab is selected when the browser is back.             *)
BoardIsOfItsTab ==
  Shown # None => Shown.period = Observed(page, tab) \/ Shown.paused
=============================================================================
