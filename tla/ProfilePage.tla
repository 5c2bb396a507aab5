----------------------------- MODULE ProfilePage -----------------------------
(***************************************************************************)
(* The profile page (routes/profile/+page.svelte) of one user, open in     *)
(* several tabs.  Each tab keeps the ['me'] query, which the header has    *)
(* usually filled before the page is opened, and a form seeded from it.    *)
(* A request and its answer are separate steps, so a slow GET can arrive   *)
(* after the PATCH that overtook it.                                       *)
(***************************************************************************)
EXTENDS FiniteSets, Functions

CONSTANTS
  Tabs,
  Values,       \* what a field can hold
  InitialRow,   \* the user's row at first
  None          \* undefined: no data, nothing in flight

Fields  == {"name", "avatar"}
UserRow == [Fields -> Values]

(* What the constants have to be; Pages assumes it of its instance. *)
PageAssumption == InitialRow \in UserRow /\ None \notin UserRow

VARIABLES
  row,      \* the user's row in the database
  data,     \* each tab's cached ['me'], or None
  form,     \* each tab's form values, None before they are seeded
  open,     \* is the profile page mounted
  edited,   \* history: the fields the user edited in the mounted form
  get,      \* each tab's GET /api/me in flight
  save      \* each tab's PATCH in flight

vars == <<row, data, form, open, edited, get, save>>

NoPatch == Restrict(InitialRow, {})

NoGet  == [pc |-> "none", answer |-> None]
Sent   == [pc |-> "sent", answer |-> None]
NoSave == [pc |-> "none", patch |-> NoPatch, answer |-> None]

Init ==
  /\ row = InitialRow
  /\ data = [t \in Tabs |-> None]
  /\ form = [t \in Tabs |-> None]
  /\ open = [t \in Tabs |-> FALSE]
  /\ edited = [t \in Tabs |-> {}]
  /\ get = [t \in Tabs |-> Sent]       \* the header's query
  /\ save = [t \in Tabs |-> NoSave]

(* A wrong variant: every answer re-seeds the form. *)
ReseededForm(old, me) == IF me = None THEN old ELSE me

(* The $effect: once, as soon as the query has data. *)
SeededForm(old, me) == IF old = None THEN me ELSE old

-----------------------------------------------------------------------------
(* The query *)

(* staleTime 0: mounting the page shows the cached data and fetches again. *)
Open(t) ==
  /\ ~open[t]
  /\ open' = [open EXCEPT ![t] = TRUE]
  /\ form' = [form EXCEPT ![t] = SeededForm(None, data[t])]
  /\ edited' = [edited EXCEPT ![t] = {}]
  /\ get' = [get EXCEPT ![t] = IF @.pc = "none" THEN Sent ELSE @]
  /\ UNCHANGED <<row, data, save>>

Leave(t) ==
  /\ open[t]
  /\ open' = [open EXCEPT ![t] = FALSE]
  /\ form' = [form EXCEPT ![t] = None]
  /\ edited' = [edited EXCEPT ![t] = {}]
  /\ UNCHANGED <<row, data, get, save>>

ServeGet(t) ==
  /\ get[t].pc = "sent"
  /\ get' = [get EXCEPT ![t] = [pc |-> "answered", answer |-> row]]
  /\ UNCHANGED <<row, data, form, open, edited, save>>

(* New data in the query reaches the page's effect. *)
Cache(t, me) ==
  /\ data' = [data EXCEPT ![t] = me]
  /\ form' = IF open[t] THEN [form EXCEPT ![t] = SeededForm(@, me)] ELSE form

GetArrives(t) ==
  /\ get[t].pc = "answered"
  /\ Cache(t, get[t].answer)
  /\ get' = [get EXCEPT ![t] = NoGet]
  /\ UNCHANGED <<row, open, edited, save>>

GetFails(t) ==
  /\ get[t].pc # "none"
  /\ get' = [get EXCEPT ![t] = NoGet]
  /\ UNCHANGED <<row, data, form, open, edited, save>>

-----------------------------------------------------------------------------
(* The form *)

Edit(t, f, v) ==
  /\ open[t] /\ form[t] # None
  /\ form' = [form EXCEPT ![t][f] = v]
  /\ edited' = [edited EXCEPT ![t] = @ \cup {f}]
  /\ UNCHANGED <<row, data, open, get, save>>

(* The fields whose form value is not the cached one. *)
Changed(t) == {f \in Fields : form[t][f] # data[t][f]}

Submit(t) ==
  /\ open[t] /\ form[t] # None /\ data[t] # None
  /\ save[t].pc = "none"                        \* the form is not submitting
  /\ Changed(t) # {}                            \* dirty
  /\ save' = [save EXCEPT ![t] = [NoSave EXCEPT !.pc = "sent", !.patch = Restrict(form[t], Changed(t))]]
  /\ UNCHANGED <<row, data, form, open, edited, get>>

ServeSave(t) ==
  LET patch == save[t].patch
      new == [f \in Fields |-> IF f \in DOMAIN patch THEN patch[f] ELSE row[f]]
  IN
  /\ save[t].pc = "sent"
  /\ row' = new
  /\ save' = [save EXCEPT ![t].pc = "answered", ![t].answer = new]
  /\ UNCHANGED <<data, form, open, edited, get>>

(* setQueryData, whether or not the page is still mounted. *)
SaveArrives(t) ==
  /\ save[t].pc = "answered"
  /\ Cache(t, save[t].answer)
  /\ save' = [save EXCEPT ![t] = NoSave]
  /\ UNCHANGED <<row, open, edited, get>>

(* Refused, or the connection drops before or after the commit. *)
SaveFails(t) ==
  /\ save[t].pc # "none"
  /\ save' = [save EXCEPT ![t] = NoSave]
  /\ UNCHANGED <<row, data, form, open, edited, get>>

(* The same user edits the profile on another device. *)
Elsewhere ==
  /\ row' \in UserRow
  /\ UNCHANGED <<data, form, open, edited, get, save>>

-----------------------------------------------------------------------------
TabNext(t) ==
  \/ Open(t) \/ Leave(t)
  \/ ServeGet(t) \/ GetArrives(t)
  \/ \E f \in Fields, v \in Values : Edit(t, f, v)
  \/ Submit(t) \/ ServeSave(t) \/ SaveArrives(t)

Next == Elsewhere \/ \E t \in Tabs : TabNext(t) \/ GetFails(t) \/ SaveFails(t)

Spec == Init /\ [][Next]_vars

-----------------------------------------------------------------------------
(* Properties *)

Patches == UNION {[S -> Values] : S \in SUBSET Fields}

(* Types; a form that has data behind it is seeded. *)
TypeOK ==
  /\ row \in UserRow
  /\ data \in [Tabs -> UserRow \cup {None}]
  /\ form \in [Tabs -> UserRow \cup {None}]
  /\ \A t \in Tabs : form[t] # None <=> open[t] /\ data[t] # None
  /\ edited \in [Tabs -> SUBSET Fields]
  /\ get \in [Tabs -> [pc: {"none", "sent", "answered"}, answer: UserRow \cup {None}]]
  /\ save \in [Tabs -> [pc: {"none", "sent", "answered"}, patch: Patches, answer: UserRow \cup {None}]]

(* What the user has typed or picked stays in the form until they change   *)
(* it or leave, whatever answers arrive meanwhile.                         *)
FormEditsKept ==
  [][\A t \in Tabs : open[t] /\ open'[t] => \A f \in edited[t] :
       form'[t][f] # form[t][f] => \E v \in Values : Edit(t, f, v)]_vars
=============================================================================
