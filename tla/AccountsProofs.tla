--------------------------- MODULE AccountsProofs ---------------------------
(***************************************************************************)
(* For every number of users, requests and names: types, unique names,     *)
(* complete onboarding, and edits that keep to what they are about.        *)
(***************************************************************************)
EXTENDS Accounts, Pages, TLAPS

(* What a request has established by the time it is at a given statement:  *)
(* its patch was acceptable for the row it read, that row was not ahead of *)
(* the present one, and its avatar has been checked.                       *)
RequestSound ==
  \A t \in Slots :
    /\ req[t].pc \in {"taken", "avatar", "update"} =>
         /\ Acceptable(req[t].row, req[t].patch)
         /\ isOnboarded(req[t].row) => isOnboarded(users[req[t].user])
    /\ req[t].pc = "update" => req[t].patch.avatarEmoji \in Curated \cup {None}

IInv == TypeOK /\ RequestSound /\ OnboardedIsComplete /\ NamesUnique

(* A request in each of its states. *)
LEMMA RequestShape ==
  ASSUME TypeOK, NEW t \in Slots
  PROVE  /\ req[t].pc \in {"idle", "taken", "avatar", "update", "promote"}
         /\ req[t].pc # "idle" => req[t].user \in Users
         /\ req[t].pc \in {"taken", "avatar", "update"} =>
              /\ req[t].patch \in ProfilePatch /\ req[t].row \in UserRow
              /\ req[t] = [pc |-> req[t].pc, user |-> req[t].user,
                           patch |-> req[t].patch, row |-> req[t].row]
BY DEF TypeOK, Request, Idle

(* A slot that serves no request has the type of one. *)
LEMMA IdleIsRequest == Idle \in Request
BY DEF Request

(* What normalizing a typed name gives is a canonical name or nothing. *)
LEMMA CanonicalType ==
  ASSUME NEW patch \in ProfilePatch
  PROVE  /\ canonical(patch) \in Names \cup {None}
         /\ patch.displayName \in Typed \cup {None}
         /\ patch.avatarEmoji \in Avatars \cup {None}
BY AccountAssumption DEF ProfilePatch, canonical

-----------------------------------------------------------------------------
(* The rows a first login leaves satisfy the inductive invariant. *)
THEOREM InitOK == Init => IInv
<1> SUFFICES ASSUME Init PROVE IInv
  OBVIOUS
<1>1. TypeOK
  BY IdleIsRequest, AccountAssumption DEF Init, TypeOK, Time, UserRow, NewUser
<1>2. RequestSound
  BY DEF Init, RequestSound, Idle
<1>3. OnboardedIsComplete /\ NamesUnique
  BY AccountAssumption DEF Init, OnboardedIsComplete, NamesUnique, isOnboarded, NewUser
<1> QED BY <1>1, <1>2, <1>3 DEF IInv

-----------------------------------------------------------------------------
(* The row a request writes, when it writes. *)
LEMMA WrittenRow ==
  ASSUME IInv, NEW t \in Slots, req[t].pc = "update"
  PROVE  LET u == req[t].user  new == Written(req[t], users[u]) IN
         /\ new \in UserRow
         /\ new.role = users[u].role
         /\ isOnboarded(new) /\ new.norm # None /\ new.avatar \in Curated
         /\ new.norm \notin Reserved
         /\ new.norm = users[u].norm \/ new.norm = canonical(req[t].patch)
         /\ req[t].patch.displayName = None => new.norm = users[u].norm
         /\ req[t].patch.displayName # None => new.norm = canonical(req[t].patch)
<1> DEFINE u == req[t].user
           patch == req[t].patch
           new == Written(req[t], users[u])
<1>1. /\ u \in Users /\ patch \in ProfilePatch /\ req[t].row \in UserRow
      /\ users[u] \in UserRow /\ now \in Time
  BY RequestShape DEF IInv, TypeOK
<1>2. /\ Acceptable(req[t].row, patch)
      /\ isOnboarded(req[t].row) => isOnboarded(users[u])
      /\ patch.avatarEmoji \in Curated \cup {None}
  BY DEF IInv, RequestSound
<1>3. /\ canonical(patch) \in Names \cup {None}
      /\ patch.displayName \in Typed \cup {None}
      /\ patch.avatarEmoji \in Avatars \cup {None}
  BY <1>1, CanonicalType
<1>4. /\ isOnboarded(users[u]) <=> users[u].norm # None
      /\ isOnboarded(users[u]) <=> users[u].avatar \in Curated
      /\ users[u].norm # None => users[u].norm \notin Reserved
  BY <1>1 DEF IInv, OnboardedIsComplete, NamesUnique
<1>5. /\ new.norm = IF patch.displayName = None THEN users[u].norm ELSE canonical(patch)
      /\ new.avatar = IF patch.avatarEmoji = None THEN users[u].avatar ELSE patch.avatarEmoji
      /\ new.onboardedAt = IF isOnboarded(req[t].row) THEN users[u].onboardedAt ELSE now
      /\ new.role = users[u].role
  BY <1>1 DEF Written, UserRow
<1>6. now # None
  BY <1>1, AccountAssumption DEF Time
<1>7. patch.displayName # None => canonical(patch) \notin Reserved \cup {None}
  BY <1>2 DEF Acceptable
<1>8. ~isOnboarded(req[t].row) => patch.displayName # None /\ patch.avatarEmoji # None
  BY <1>2 DEF Acceptable
<1>9. new \in UserRow
  <2>1. new = [users[u] EXCEPT !.norm = new.norm, !.avatar = new.avatar,
                               !.onboardedAt = new.onboardedAt]
    BY <1>1, <1>5 DEF Written, UserRow
  <2>2. /\ new.norm \in Names \cup {None} /\ new.avatar \in Avatars \cup {None}
        /\ new.onboardedAt \in Time \cup {None}
    BY <1>1, <1>3, <1>5 DEF UserRow
  <2> QED BY <1>1, <2>1, <2>2 DEF UserRow
<1>10. isOnboarded(new) /\ new.norm # None /\ new.norm \notin Reserved
  BY <1>2, <1>4, <1>5, <1>6, <1>7, <1>8 DEF isOnboarded
<1>11. new.avatar \in Curated
  BY <1>2, <1>4, <1>5, <1>8
<1> QED BY <1>5, <1>9, <1>10, <1>11

(* A step that changes one request and no user keeps what the rows satisfy.*)
LEMMA RowsKept ==
  ASSUME IInv, users' = users
  PROVE  OnboardedIsComplete' /\ NamesUnique'
BY DEF IInv, OnboardedIsComplete, NamesUnique, isOnboarded

(* Every statement of every request keeps the inductive invariant. *)
LEMMA StepOK == IInv /\ [Next]_vars => IInv'
<1> SUFFICES ASSUME IInv, [Next]_vars PROVE IInv'
  OBVIOUS
<1> USE DEF IInv
<1>1. ASSUME NEW t \in Slots, NEW u \in Users, NEW patch \in ProfilePatch, ReadRow(t, u, patch)
      PROVE  IInv'
  <2> DEFINE r == [pc |-> IF canonical(patch) \in {None, users[u].norm} THEN "avatar" ELSE "taken",
                   user |-> u, patch |-> patch, row |-> users[u]]
  <2>1. users[u] \in UserRow
    BY DEF TypeOK
  <2>2. r \in Request
    BY <2>1 DEF Request
  <2>3. req' = [req EXCEPT ![t] = r] /\ UNCHANGED <<now, users, listed>>
    BY <1>1 DEF ReadRow
  <2>4. TypeOK'
    BY <2>2, <2>3 DEF TypeOK
  <2>5. RequestSound'
    <3> SUFFICES ASSUME NEW x \in Slots
                 PROVE  /\ req'[x].pc \in {"taken", "avatar", "update"} =>
                             /\ Acceptable(req'[x].row, req'[x].patch)
                             /\ isOnboarded(req'[x].row) => isOnboarded(users'[req'[x].user])
                        /\ req'[x].pc = "update" => req'[x].patch.avatarEmoji \in Curated \cup {None}
      BY DEF RequestSound, Acceptable, canonical, isOnboarded
    <3>1. CASE x = t
      BY <3>1, <2>3, <1>1 DEF ReadRow, TypeOK
    <3>2. CASE x # t
      BY <3>2, <2>3 DEF RequestSound, TypeOK
    <3> QED BY <3>1, <3>2
  <2> QED BY <2>3, <2>4, <2>5, RowsKept
<1>2. ASSUME NEW t \in Slots, End(t), UNCHANGED <<now, users>>, listed' \in SUBSET Users
      PROVE  IInv'
  <2>1. TypeOK'
    BY <1>2, IdleIsRequest DEF TypeOK, End
  <2>2. RequestSound'
    BY <1>2 DEF RequestSound, End, Idle, TypeOK, Acceptable, canonical, isOnboarded
  <2> QED BY <1>2, <2>1, <2>2, RowsKept
<1>3. ASSUME NEW t \in Slots, NEW pc \in {"avatar", "update"}, GoTo(t, pc),
             req[t].pc \in {"taken", "avatar"}, UNCHANGED <<now, users, listed>>,
             pc = "update" => req[t].patch.avatarEmoji \in Curated \cup {None}
      PROVE  IInv'
  <2>1. req[t] = [pc |-> req[t].pc, user |-> req[t].user, patch |-> req[t].patch, row |-> req[t].row]
        /\ req[t].user \in Users /\ req[t].patch \in ProfilePatch /\ req[t].row \in UserRow
    BY <1>3, RequestShape
  <2>2. req' = [req EXCEPT ![t] = [pc |-> pc, user |-> req[t].user,
                                   patch |-> req[t].patch, row |-> req[t].row]]
    <3> DEFINE old == req[t]
    <3>1. req' = [req EXCEPT ![t] = [old EXCEPT !.pc = pc]]
      BY <1>3 DEF GoTo
    <3> HIDE DEF old
    <3>2. [old EXCEPT !.pc = pc] = [pc |-> pc, user |-> old.user, patch |-> old.patch, row |-> old.row]
      BY <2>1 DEF old
    <3> QED BY <3>1, <3>2 DEF old
  <2>3. TypeOK'
    <3>1. [pc |-> pc, user |-> req[t].user, patch |-> req[t].patch, row |-> req[t].row] \in Request
      BY <2>1 DEF Request
    <3> QED BY <1>3, <2>2, <3>1 DEF TypeOK
  <2>4. RequestSound'
    <3> SUFFICES ASSUME NEW x \in Slots
                 PROVE  /\ req'[x].pc \in {"taken", "avatar", "update"} =>
                             /\ Acceptable(req'[x].row, req'[x].patch)
                             /\ isOnboarded(req'[x].row) => isOnboarded(users'[req'[x].user])
                        /\ req'[x].pc = "update" => req'[x].patch.avatarEmoji \in Curated \cup {None}
      BY DEF RequestSound, Acceptable, canonical, isOnboarded
    <3>1. CASE x = t
      BY <3>1, <2>2, <1>3 DEF RequestSound, TypeOK
    <3>2. CASE x # t
      BY <3>2, <2>2, <1>3 DEF RequestSound, TypeOK
    <3> QED BY <3>1, <3>2
  <2> QED BY <1>3, <2>3, <2>4, RowsKept
<1>4. ASSUME NEW t \in Slots, LookForName(t)
      PROVE  IInv'
  BY <1>4, <1>2, <1>3 DEF LookForName, TypeOK
<1>5. ASSUME NEW t \in Slots, CheckAvatar(t)
      PROVE  IInv'
  BY <1>5, <1>2, <1>3 DEF CheckAvatar, TypeOK
<1>6. ASSUME NEW t \in Slots, UpdateRow(t)
      PROVE  IInv'
  <2> DEFINE u == req[t].user
             new == Written(req[t], users[u])
  <2>1. CASE UniqueViolation(t)
    BY <1>6, <2>1, <1>2 DEF UpdateRow, TypeOK
  <2>2. CASE ~UniqueViolation(t)
    <3>1. /\ users' = [users EXCEPT ![u] = new]
          /\ req' = [req EXCEPT ![t] = Idle] /\ UNCHANGED <<now, listed>>
          /\ req[t].pc = "update"
      BY <1>6, <2>2 DEF UpdateRow, End
    <3>2. u \in Users
      BY <3>1, RequestShape
    <3>3. /\ new \in UserRow /\ isOnboarded(new) /\ new.norm # None /\ new.avatar \in Curated
          /\ new.norm \notin Reserved
          /\ req[t].patch.displayName = None => new.norm = users[u].norm
          /\ req[t].patch.displayName # None => new.norm = canonical(req[t].patch)
      BY <3>1, WrittenRow
    <3>4. TypeOK'
      BY <3>1, <3>2, <3>3, IdleIsRequest DEF TypeOK
    <3>5. OnboardedIsComplete'
      <4> SUFFICES ASSUME NEW v \in Users
                   PROVE  /\ isOnboarded(users'[v]) <=> users'[v].norm # None
                          /\ isOnboarded(users'[v]) <=> users'[v].avatar \in Curated
        BY DEF OnboardedIsComplete, isOnboarded
      <4>1. CASE v = u
        BY <4>1, <3>1, <3>2, <3>3 DEF TypeOK
      <4>2. CASE v # u
        BY <4>2, <3>1 DEF OnboardedIsComplete, TypeOK
      <4> QED BY <4>1, <4>2
    <3>6. \A v \in Users \ {u} : users[v].norm # new.norm
      <4>1. CASE req[t].patch.displayName = None
        BY <4>1, <3>2, <3>3 DEF NamesUnique
      <4>2. CASE req[t].patch.displayName # None
        BY <4>2, <2>2, <3>3 DEF UniqueViolation, HeldByOther
      <4> QED BY <4>1, <4>2
    <3>7. NamesUnique'
      <4> SUFFICES ASSUME NEW v \in Users, users'[v].norm # None
                   PROVE  /\ users'[v].norm \notin Reserved
                          /\ \A w \in Users \ {v} : users'[w].norm # users'[v].norm
        BY DEF NamesUnique
      <4>1. CASE v = u
        BY <4>1, <3>1, <3>2, <3>3, <3>6 DEF TypeOK
      <4>2. CASE v # u
        BY <4>2, <3>1, <3>2, <3>6 DEF NamesUnique, TypeOK
      <4> QED BY <4>1, <4>2
    <3>8. RequestSound'
      <4> SUFFICES ASSUME NEW x \in Slots
                   PROVE  /\ req'[x].pc \in {"taken", "avatar", "update"} =>
                               /\ Acceptable(req'[x].row, req'[x].patch)
                               /\ isOnboarded(req'[x].row) => isOnboarded(users'[req'[x].user])
                          /\ req'[x].pc = "update" => req'[x].patch.avatarEmoji \in Curated \cup {None}
        BY DEF RequestSound, Acceptable, canonical, isOnboarded
      <4>1. CASE x = t
        BY <4>1, <3>1 DEF Idle, TypeOK
      <4>2. CASE x # t
        <5>1. req'[x] = req[x]
          BY <4>2, <3>1 DEF TypeOK
        <5>2. req[x].pc # "idle" => req[x].user \in Users
          BY RequestShape
        <5>3. \A v \in Users : isOnboarded(users[v]) => isOnboarded(users'[v])
          BY <3>1, <3>2, <3>3 DEF TypeOK
        <5> QED BY <5>1, <5>2, <5>3 DEF RequestSound
      <4> QED BY <4>1, <4>2
    <3> QED BY <3>4, <3>5, <3>7, <3>8
  <2> QED BY <2>1, <2>2
<1>7. ASSUME NEW t \in Slots, NEW u \in Users, ResolveSession(t, u)
      PROVE  IInv'
  <2> DEFINE r == [pc |-> "promote", user |-> u, patch |-> None, row |-> None]
  <2>1. req' = [req EXCEPT ![t] = r] /\ UNCHANGED <<now, users, listed>>
    BY <1>7 DEF ResolveSession
  <2>2. TypeOK'
    <3>1. r \in Request
      BY DEF Request
    <3> QED BY <2>1, <3>1 DEF TypeOK
  <2>3. RequestSound'
    BY <2>1 DEF RequestSound, TypeOK, Acceptable, canonical, isOnboarded
  <2> QED BY <2>1, <2>2, <2>3, RowsKept
<1>8. ASSUME NEW t \in Slots, Promote(t)
      PROVE  IInv'
  <2> DEFINE u == req[t].user
             new == [users[u] EXCEPT !.role = "admin"]
  <2>1. /\ users' = [users EXCEPT ![u] = new] /\ req' = [req EXCEPT ![t] = Idle]
        /\ UNCHANGED <<now, listed>> /\ u \in Users
    BY <1>8, RequestShape DEF Promote, End
  <2>2. users[u] \in UserRow
    BY <2>1 DEF TypeOK
  <2>3. /\ new \in UserRow /\ new.norm = users[u].norm /\ new.avatar = users[u].avatar
        /\ new.onboardedAt = users[u].onboardedAt
    BY <2>2 DEF UserRow
  <2>4. \A v \in Users : /\ users'[v].norm = users[v].norm /\ users'[v].avatar = users[v].avatar
                         /\ users'[v].onboardedAt = users[v].onboardedAt
    BY <2>1, <2>3 DEF TypeOK
  <2>5. TypeOK'
    BY <2>1, <2>3, IdleIsRequest DEF TypeOK
  <2>6. OnboardedIsComplete' /\ NamesUnique'
    BY <2>4 DEF OnboardedIsComplete, NamesUnique, isOnboarded
  <2>7. RequestSound'
    <3> SUFFICES ASSUME NEW x \in Slots
                 PROVE  /\ req'[x].pc \in {"taken", "avatar", "update"} =>
                             /\ Acceptable(req'[x].row, req'[x].patch)
                             /\ isOnboarded(req'[x].row) => isOnboarded(users'[req'[x].user])
                        /\ req'[x].pc = "update" => req'[x].patch.avatarEmoji \in Curated \cup {None}
      BY DEF RequestSound, Acceptable, canonical, isOnboarded
    <3>1. CASE x = t
      BY <3>1, <2>1 DEF Idle, TypeOK
    <3>2. CASE x # t
      <4>1. req'[x] = req[x] /\ (req[x].pc # "idle" => req[x].user \in Users)
        BY <3>2, <2>1, RequestShape DEF TypeOK
      <4>2. \A v \in Users : isOnboarded(users[v]) => isOnboarded(users'[v])
        BY <2>4 DEF isOnboarded
      <4> QED BY <4>1, <4>2 DEF RequestSound
    <3> QED BY <3>1, <3>2
  <2> QED BY <2>5, <2>6, <2>7
<1>9. ASSUME NEW t \in Slots, Crash(t)
      PROVE  IInv'
  BY <1>9, <1>2 DEF Crash, TypeOK
<1>10. CASE Tick \/ Redeploy \/ UNCHANGED vars
  <2>1. /\ req' = req /\ users' = users /\ now' \in Time /\ listed' \in SUBSET Users
    BY <1>10, AccountAssumption DEF Tick, Redeploy, vars, TypeOK, Time
  <2>2. TypeOK' /\ RequestSound'
    BY <2>1 DEF TypeOK, RequestSound, Acceptable, canonical, isOnboarded
  <2> QED BY <2>1, <2>2, RowsKept
<1> QED BY <1>1, <1>4, <1>5, <1>6, <1>7, <1>8, <1>9, <1>10 DEF Next, SlotNext

(* The inductive invariant holds in every behaviour. *)
THEOREM AccountsInvariant == Spec => []IInv
BY InitOK, StepOK, PTL DEF Spec

(* Types: what is stored as a name is always a canonical name. *)
THEOREM AccountsTypes == Spec => []TypeOK
<1>1. IInv => TypeOK
  BY DEF IInv
<1> QED BY <1>1, AccountsInvariant, PTL

(* However many requests claim a name at once, one user at most holds it,  *)
(* and a reserved name is held by nobody.                                  *)
THEOREM NamesAreUnique == Spec => []NamesUnique
<1>1. IInv => NamesUnique
  BY DEF IInv
<1> QED BY <1>1, AccountsInvariant, PTL

(* Nobody is ever seen half onboarded. *)
THEOREM OnboardingIsAtomic == Spec => []OnboardedIsComplete
<1>1. IInv => OnboardedIsComplete
  BY DEF IInv
<1> QED BY <1>1, AccountsInvariant, PTL

(* The UPDATE of a profile edit. *)
LEMMA UpdateKeeps ==
  ASSUME IInv, NEW t \in Slots, UpdateRow(t), NEW u \in Users
  PROVE  KeptBy(u)
<1> DEFINE w == req[t].user
           new == Written(req[t], users[w])
<1>1. /\ req[t].pc = "update" /\ w \in Users /\ users[w] \in UserRow
  BY RequestShape DEF IInv, TypeOK, UpdateRow
<1>2. CASE users' = users
  BY <1>2 DEF KeptBy
<1>3. CASE users' = [users EXCEPT ![w] = new]
  <2>1. users'[u] = IF u = w THEN new ELSE users[u]
    BY <1>3 DEF IInv, TypeOK
  <2>2. new.role = users[w].role /\ isOnboarded(new)
    BY <1>1, WrittenRow
  <2>3. new.norm # users[w].norm => req[t].patch.displayName # None
    BY <1>1, WrittenRow
  <2>4. new.avatar # users[w].avatar => req[t].patch.avatarEmoji # None
    BY <1>1 DEF Written, UserRow
  <2>7. new.onboardedAt # users[w].onboardedAt => ~isOnboarded(req[t].row)
    BY <1>1 DEF Written, UserRow
  <2> HIDE DEF new
  <2>5. CASE u # w
    BY <2>1, <2>5 DEF KeptBy
  <2>6. CASE u = w
    BY <1>1, <2>1, <2>2, <2>3, <2>4, <2>6, <2>7 DEF KeptBy
  <2> QED BY <2>5, <2>6
<1> QED BY <1>2, <1>3 DEF UpdateRow

(* The promotion of a listed user. *)
LEMMA PromoteKeeps ==
  ASSUME IInv, NEW t \in Slots, Promote(t), NEW u \in Users
  PROVE  KeptBy(u)
<1>1. users \in [Users -> UserRow]
  BY DEF IInv, TypeOK
<1>2. /\ users'[u].norm = users[u].norm /\ users'[u].avatar = users[u].avatar
      /\ users'[u].onboardedAt = users[u].onboardedAt
      /\ users'[u].role \in {users[u].role, "admin"}
  BY <1>1 DEF Promote, UserRow
<1> QED BY <1>2 DEF KeptBy, isOnboarded

(* Whatever requests interleave, an edit touches only what it was about,   *)
(* and neither a role nor onboarding is lost to a request begun earlier.   *)
THEOREM EditsAreKept == Spec => EditsDoNotClobber
<1>1. IInv /\ [Next]_vars => \A u \in Users : KeptBy(u)
  <2> SUFFICES ASSUME IInv, [Next]_vars, NEW u \in Users PROVE KeptBy(u)
    OBVIOUS
  <2>1. CASE users' = users
    BY <2>1 DEF KeptBy
  <2>2. CASE \E t \in Slots : UpdateRow(t)
    BY <2>2, UpdateKeeps
  <2>3. CASE \E t \in Slots : Promote(t)
    BY <2>3, PromoteKeeps
  <2>4. users' = users \/ \E t \in Slots : UpdateRow(t) \/ Promote(t)
    BY DEF Next, SlotNext, ReadRow, LookForName, CheckAvatar, ResolveSession, Redeploy, Crash,
           Tick, vars
  <2> QED BY <2>1, <2>2, <2>3, <2>4
<1> QED BY <1>1, AccountsInvariant, PTL DEF Spec, EditsDoNotClobber

-----------------------------------------------------------------------------
(* The page that edits the profile, for every number of tabs and values *)

(* An answer under way carries a row; what was edited is in a seeded form. *)
PageSound ==
  /\ pageOpen \in [PageTabs -> BOOLEAN]
  /\ \A t \in PageTabs :
       /\ pageGet[t].pc = "answered" => pageGet[t].answer \in Page!UserRow
       /\ pageSave[t].pc = "answered" => pageSave[t].answer \in Page!UserRow
       /\ pageEdited[t] # {} => pageForm[t] # Nothing

PageInv == Page!TypeOK /\ PageSound

LEMMA PageInit == Page!PageAssumption /\ Page!Init => PageInv
  <1> SUFFICES ASSUME Page!PageAssumption, Page!Init PROVE PageInv
    OBVIOUS
  <1>1. Page!NoPatch \in Page!Patches
    BY DEF Page!NoPatch, Page!Patches, Page!Restrict
  <1> QED
    BY <1>1 DEF Page!PageAssumption, Page!Init, PageInv, PageSound, Page!TypeOK, Page!Sent,
                Page!NoSave

(* New data seeds a form that waits for it and leaves a seeded one alone.  *)
LEMMA CacheKeeps ==
  ASSUME PageInv, NEW t \in PageTabs, NEW me \in Page!UserRow, Nothing \notin Page!UserRow,
         Page!Cache(t, me), UNCHANGED <<pageOpen, pageEdited>>
  PROVE  /\ pageData' \in [PageTabs -> Page!UserRow \cup {Nothing}]
         /\ pageForm' \in [PageTabs -> Page!UserRow \cup {Nothing}]
         /\ \A x \in PageTabs :
              /\ pageForm'[x] # Nothing <=> pageOpen'[x] /\ pageData'[x] # Nothing
              /\ pageEdited'[x] # {} => pageForm'[x] # Nothing
              /\ pageForm[x] # Nothing => pageForm'[x] = pageForm[x]
  <1>1. /\ pageData \in [PageTabs -> Page!UserRow \cup {Nothing}]
        /\ pageForm \in [PageTabs -> Page!UserRow \cup {Nothing}]
        /\ \A x \in PageTabs : pageForm[x] # Nothing <=> pageOpen[x] /\ pageData[x] # Nothing
        /\ \A x \in PageTabs : pageEdited[x] # {} => pageForm[x] # Nothing
    BY DEF PageInv, PageSound, Page!TypeOK
  <1>2. CASE pageOpen[t]
    BY <1>1, <1>2 DEF Page!Cache, Page!SeededForm
  <1>3. CASE ~pageOpen[t]
    BY <1>1, <1>3 DEF Page!Cache
  <1> QED
    BY <1>2, <1>3

(* What a step on the page keeps, and what it does to edited fields. *)
PageKept ==
  \A t \in PageTabs : pageOpen[t] /\ pageOpen'[t] => \A f \in pageEdited[t] :
    pageForm'[t][f] # pageForm[t][f] => \E v \in PageValues : Page!Edit(t, f, v)

PageGets  == [pc: {"none", "sent", "answered"}, answer: Page!UserRow \cup {Nothing}]
PageSaves == [pc: {"none", "sent", "answered"}, patch: Page!Patches,
              answer: Page!UserRow \cup {Nothing}]

(* A request, as it is made, answered and forgotten. *)
LEMMA PageRequests ==
  ASSUME Page!PageAssumption
  PROVE  /\ Page!NoGet \in PageGets /\ Page!NoGet.pc = "none"
         /\ Page!Sent \in PageGets /\ Page!Sent.pc = "sent"
         /\ Page!NoSave \in PageSaves /\ Page!NoSave.pc = "none"
         /\ \A me \in Page!UserRow : [pc |-> "answered", answer |-> me] \in PageGets
         /\ \A me \in Page!UserRow, save \in PageSaves :
              LET answered == [[save EXCEPT !.pc = "answered"] EXCEPT !.answer = me]
              IN  answered \in PageSaves /\ answered.answer = me
         /\ \A patch \in Page!Patches :
              LET sent == [[Page!NoSave EXCEPT !.pc = "sent"] EXCEPT !.patch = patch]
              IN  sent \in PageSaves /\ sent.pc = "sent"
  <1>1. Page!NoPatch \in Page!Patches
    BY DEF Page!NoPatch, Page!Patches, Page!Restrict
  <1> QED
    BY <1>1 DEF PageGets, PageSaves, Page!NoGet, Page!Sent, Page!NoSave

(* The step of one tab at a time: the queries, the form, the database.     *)
LEMMA PageStep ==
  ASSUME Page!PageAssumption, PageInv, [Page!Next]_(Page!vars)
  PROVE  PageInv' /\ PageKept
  <1> DEFINE Row == Page!UserRow
             Goal == PageInv' /\ PageKept
  <1>0. /\ Nothing \notin Row /\ pageRow \in Row
        /\ pageData \in [PageTabs -> Row \cup {Nothing}] /\ pageForm \in [PageTabs -> Row \cup {Nothing}]
        /\ \A t \in PageTabs : pageForm[t] # Nothing <=> pageOpen[t] /\ pageData[t] # Nothing
        /\ pageEdited \in [PageTabs -> SUBSET Page!Fields]
        /\ pageGet \in [PageTabs -> PageGets] /\ pageSave \in [PageTabs -> PageSaves]
        /\ pageOpen \in [PageTabs -> BOOLEAN]
        /\ PageSound
    BY DEF PageInv, PageSound, Page!TypeOK, Page!PageAssumption, PageGets, PageSaves
  <1> USE PageRequests
  <1>a. ASSUME /\ pageRow' \in Row
               /\ pageData' \in [PageTabs -> Row \cup {Nothing}]
               /\ pageForm' \in [PageTabs -> Row \cup {Nothing}]
               /\ \A t \in PageTabs : pageForm'[t] # Nothing <=> pageOpen'[t] /\ pageData'[t] # Nothing
               /\ pageEdited' \in [PageTabs -> SUBSET Page!Fields]
               /\ pageGet' \in [PageTabs -> PageGets] /\ pageSave' \in [PageTabs -> PageSaves]
               /\ PageSound'
        PROVE  PageInv'
    BY <1>a DEF PageInv, Page!TypeOK, PageGets, PageSaves
  <1>b. ASSUME \A t \in PageTabs, f \in Page!Fields :
                 pageOpen[t] /\ pageOpen'[t] /\ f \in pageEdited[t] =>
                   pageForm'[t][f] = pageForm[t][f]
        PROVE  PageKept
    BY <1>0, <1>b DEF PageKept
  <1>1. CASE Page!Elsewhere \/ UNCHANGED Page!vars
    <2>1. /\ pageRow' \in Row
          /\ UNCHANGED <<pageData, pageForm, pageOpen, pageEdited, pageGet, pageSave>>
      BY <1>0, <1>1 DEF Page!Elsewhere, Page!vars
    <2>2. PageSound'
      BY <1>0, <2>1 DEF PageSound
    <2>3. PageInv'
      BY <1>0, <1>a, <2>1, <2>2
    <2> QED
      BY <1>b, <2>1, <2>3
  <1>2. ASSUME NEW t \in PageTabs, Page!Open(t) PROVE Goal
    <2>1. /\ pageOpen' \in [PageTabs -> BOOLEAN] /\ pageOpen'[t]
          /\ \A x \in PageTabs \ {t} : pageOpen'[x] = pageOpen[x]
          /\ ~pageOpen[t] /\ UNCHANGED <<pageRow, pageData, pageSave>>
      BY <1>0, <1>2 DEF Page!Open
    <2>2. /\ pageForm' \in [PageTabs -> Row \cup {Nothing}] /\ pageForm'[t] = pageData[t]
          /\ \A x \in PageTabs \ {t} : pageForm'[x] = pageForm[x]
      <3>1. Page!SeededForm(Nothing, pageData[t]) = pageData[t]
        BY DEF Page!SeededForm
      <3> QED
        BY <1>0, <1>2, <3>1 DEF Page!Open
    <2>a. /\ pageEdited' \in [PageTabs -> SUBSET Page!Fields] /\ pageEdited'[t] = {}
          /\ \A x \in PageTabs \ {t} : pageEdited'[x] = pageEdited[x]
      BY <1>0, <1>2 DEF Page!Open
    <2>b. /\ pageGet' \in [PageTabs -> PageGets]
          /\ pageGet'[t] = pageGet[t] \/ pageGet'[t].pc = "sent"
          /\ \A x \in PageTabs \ {t} : pageGet'[x] = pageGet[x]
      BY <1>0, <1>2 DEF Page!Open
    <2>3. PageSound'
      <3>1. \A x \in PageTabs : pageGet'[x].pc = "answered" => pageGet'[x].answer \in Row
        BY <1>0, <2>b DEF PageSound
      <3>2. \A x \in PageTabs : pageEdited'[x] # {} => pageForm'[x] # Nothing
        BY <1>0, <2>2, <2>a DEF PageSound
      <3>3. \A x \in PageTabs : pageSave'[x].pc = "answered" => pageSave'[x].answer \in Row
        BY <1>0, <2>1 DEF PageSound
      <3> QED
        BY <2>1, <3>1, <3>2, <3>3 DEF PageSound
    <2>4. PageInv'
      <3>1. \A x \in PageTabs : pageForm'[x] # Nothing <=> pageOpen'[x] /\ pageData'[x] # Nothing
        <4>1. ASSUME NEW x \in PageTabs \ {t}
              PROVE  pageForm'[x] # Nothing <=> pageOpen'[x] /\ pageData'[x] # Nothing
          <5>1. pageForm'[x] = pageForm[x] /\ pageOpen'[x] = pageOpen[x] /\ pageData'[x] = pageData[x]
            BY <2>1, <2>2
          <5>2. pageForm[x] # Nothing <=> pageOpen[x] /\ pageData[x] # Nothing
            BY <1>0
          <5> QED
            BY <5>1, <5>2
        <4>2. pageForm'[t] # Nothing <=> pageOpen'[t] /\ pageData'[t] # Nothing
          BY <2>1, <2>2
        <4> QED
          BY <4>1, <4>2
      <3> QED
        BY <1>0, <1>a, <2>1, <2>2, <2>a, <2>b, <2>3, <3>1
    <2>5. PageKept
      BY <1>b, <2>1, <2>2
    <2> QED
      BY <2>4, <2>5
  <1>3. ASSUME NEW t \in PageTabs, Page!Leave(t) PROVE Goal
    BY <1>0, <1>a, <1>b, <1>3 DEF Page!Leave, PageSound
  <1>4. ASSUME NEW t \in PageTabs, NEW get \in PageGets,
               get.pc = "answered" => get.answer \in Row,
               pageGet' = [pageGet EXCEPT ![t] = get],
               UNCHANGED <<pageRow, pageData, pageForm, pageOpen, pageEdited, pageSave>>
        PROVE  Goal
    <2>1. pageGet' \in [PageTabs -> PageGets]
      BY <1>0, <1>4
    <2>2. PageSound'
      <3>1. \A x \in PageTabs : pageGet'[x] = IF x = t THEN get ELSE pageGet[x]
        BY <1>0, <1>4
      <3>2. \A x \in PageTabs : pageGet'[x].pc = "answered" => pageGet'[x].answer \in Row
        BY <1>0, <1>4, <3>1 DEF PageSound
      <3> QED
        BY <1>0, <1>4, <3>2 DEF PageSound
    <2>3. PageInv'
      BY <1>0, <1>a, <1>4, <2>1, <2>2
    <2> QED
      BY <1>b, <1>4, <2>3
  <1>5. ASSUME NEW t \in PageTabs, NEW save \in PageSaves,
               save.pc = "answered" => save.answer \in Row,
               pageSave' = [pageSave EXCEPT ![t] = save], pageRow' \in Row,
               UNCHANGED <<pageData, pageForm, pageOpen, pageEdited, pageGet>>
        PROVE  Goal
    <2>1. pageSave' \in [PageTabs -> PageSaves]
      BY <1>0, <1>5
    <2>2. PageSound'
      <3>1. \A x \in PageTabs : pageSave'[x] = IF x = t THEN save ELSE pageSave[x]
        BY <1>0, <1>5
      <3>2. \A x \in PageTabs : pageSave'[x].pc = "answered" => pageSave'[x].answer \in Row
        BY <1>0, <1>5, <3>1 DEF PageSound
      <3> QED
        BY <1>0, <1>5, <3>2 DEF PageSound
    <2>3. PageInv'
      BY <1>0, <1>a, <1>5, <2>1, <2>2
    <2> QED
      BY <1>b, <1>5, <2>3
  <1>6. ASSUME NEW t \in PageTabs, Page!ServeGet(t) \/ Page!GetFails(t) PROVE Goal
    BY <1>0, <1>4, <1>6 DEF Page!ServeGet, Page!GetFails
  <1>7. ASSUME NEW t \in PageTabs, Page!GetArrives(t) PROVE Goal
    <2>1. pageGet[t].answer \in Row
      BY <1>0, <1>7 DEF Page!GetArrives, PageSound
    <2>2. /\ pageGet' \in [PageTabs -> PageGets]
          /\ \A x \in PageTabs : pageGet'[x].pc = "answered" => pageGet'[x].answer \in Row
      BY <1>0, <1>7 DEF Page!GetArrives, PageSound
    <2>3. Page!Cache(t, pageGet[t].answer) /\ UNCHANGED <<pageRow, pageOpen, pageEdited, pageSave>>
      BY <1>7 DEF Page!GetArrives
    <2> QED
      BY <1>0, <1>a, <1>b, <2>1, <2>2, <2>3, CacheKeeps DEF PageSound
  <1>8. ASSUME NEW t \in PageTabs, Page!SaveArrives(t) PROVE Goal
    <2>1. pageSave[t].answer \in Row
      BY <1>0, <1>8 DEF Page!SaveArrives, PageSound
    <2>2. /\ pageSave' \in [PageTabs -> PageSaves]
          /\ \A x \in PageTabs : pageSave'[x].pc = "answered" => pageSave'[x].answer \in Row
      BY <1>0, <1>8 DEF Page!SaveArrives, PageSound
    <2>3. Page!Cache(t, pageSave[t].answer) /\ UNCHANGED <<pageRow, pageOpen, pageEdited, pageGet>>
      BY <1>8 DEF Page!SaveArrives
    <2> QED
      BY <1>0, <1>a, <1>b, <2>1, <2>2, <2>3, CacheKeeps DEF PageSound
  <1>9. ASSUME NEW t \in PageTabs, Page!ServeSave(t) PROVE Goal
    <2> DEFINE new == [f \in Page!Fields |->
                         IF f \in DOMAIN pageSave[t].patch THEN pageSave[t].patch[f] ELSE pageRow[f]]
    <2>1. pageSave[t] \in PageSaves
      BY <1>0
    <2>2. new \in Row
      <3>1. PICK S \in SUBSET Page!Fields : pageSave[t].patch \in [S -> PageValues]
        <4>1. pageSave[t].patch \in Page!Patches
          BY <2>1 DEF PageSaves
        <4> QED
          BY <4>1 DEF Page!Patches
      <3>2. \A f \in S : pageSave[t].patch[f] \in PageValues
        BY <3>1
      <3>3. DOMAIN pageSave[t].patch = S
        BY <3>1
      <3>4. \A f \in Page!Fields : pageRow[f] \in PageValues
        BY <1>0 DEF Page!UserRow
      <3> QED
        BY <3>2, <3>3, <3>4 DEF Page!UserRow
    <2>3. /\ pageRow' = new
          /\ pageSave' = [pageSave EXCEPT ![t] =
                            [[pageSave[t] EXCEPT !.pc = "answered"] EXCEPT !.answer = new]]
          /\ UNCHANGED <<pageData, pageForm, pageOpen, pageEdited, pageGet>>
      BY <1>0, <1>9 DEF Page!ServeSave
    <2> HIDE DEF new
    <2> QED
      BY <1>5, <2>1, <2>2, <2>3
  <1>10. ASSUME NEW t \in PageTabs, Page!Submit(t) PROVE Goal
    <2> DEFINE patch == Page!Restrict(pageForm[t], Page!Changed(t))
    <2>1. pageForm[t] \in Row
      BY <1>0, <1>10 DEF Page!Submit
    <2>2. patch \in Page!Patches
      <3>1. Page!Changed(t) \in SUBSET Page!Fields
        BY DEF Page!Changed
      <3>2. patch \in [Page!Changed(t) -> PageValues]
        BY <2>1, <3>1 DEF Page!Restrict, Page!UserRow
      <3> QED
        BY <3>1, <3>2 DEF Page!Patches
    <2>3. /\ pageSave' = [pageSave EXCEPT ![t] =
                            [[Page!NoSave EXCEPT !.pc = "sent"] EXCEPT !.patch = patch]]
          /\ UNCHANGED <<pageRow, pageData, pageForm, pageOpen, pageEdited, pageGet>>
      BY <1>0, <1>10 DEF Page!Submit
    <2> HIDE DEF patch
    <2> QED
      BY <1>0, <1>5, <2>2, <2>3
  <1>11. ASSUME NEW t \in PageTabs, Page!SaveFails(t) PROVE Goal
    BY <1>0, <1>5, <1>11 DEF Page!SaveFails
  <1>12. ASSUME NEW t \in PageTabs, NEW f \in Page!Fields, NEW v \in PageValues, Page!Edit(t, f, v)
         PROVE  Goal
    <2>1. /\ pageForm[t] \in Row /\ pageOpen[t]
          /\ [pageForm[t] EXCEPT ![f] = v] \in Row
          /\ pageForm'[t] = [pageForm[t] EXCEPT ![f] = v]
          /\ \A x \in PageTabs \ {t} : pageForm'[x] = pageForm[x]
          /\ pageForm' \in [PageTabs -> Row \cup {Nothing}]
      BY <1>0, <1>12 DEF Page!Edit, Page!UserRow
    <2>2. /\ pageEdited' \in [PageTabs -> SUBSET Page!Fields]
          /\ \A x \in PageTabs \ {t} : pageEdited'[x] = pageEdited[x]
          /\ UNCHANGED <<pageRow, pageData, pageOpen, pageGet, pageSave>>
      BY <1>0, <1>12 DEF Page!Edit
    <2>3. PageInv'
      <3>1. \A x \in PageTabs :
              /\ pageForm'[x] # Nothing <=> pageForm[x] # Nothing
              /\ pageEdited'[x] # {} => pageForm'[x] # Nothing
        <4>0. pageForm[t] \in Row /\ pageForm'[t] \in Row
          BY <2>1 DEF Page!UserRow
        <4>1. pageForm[t] # Nothing /\ pageForm'[t] # Nothing
          BY <1>0, <4>0
        <4>2. \A x \in PageTabs : pageEdited[x] # {} => pageForm[x] # Nothing
          BY <1>0 DEF PageSound
        <4>3. \A x \in PageTabs \ {t} :
                pageForm'[x] = pageForm[x] /\ pageEdited'[x] = pageEdited[x]
          BY <2>1, <2>2
        <4> QED
          BY <4>1, <4>2, <4>3
      <3> QED
        <4>1. PageSound'
          <5>1. \A x \in PageTabs :
                  /\ pageGet[x].pc = "answered" => pageGet[x].answer \in Row
                  /\ pageSave[x].pc = "answered" => pageSave[x].answer \in Row
            BY <1>0 DEF PageSound
          <5>2. \A x \in PageTabs : pageEdited'[x] # {} => pageForm'[x] # Nothing
            BY <3>1
          <5>3. pageOpen' \in [PageTabs -> BOOLEAN] /\ pageGet' = pageGet /\ pageSave' = pageSave
            BY <1>0, <2>2
          <5> QED
            BY <5>1, <5>2, <5>3 DEF PageSound
        <4>2. \A x \in PageTabs : pageForm'[x] # Nothing <=> pageOpen'[x] /\ pageData'[x] # Nothing
          BY <1>0, <2>2, <3>1
        <4> QED
          BY <1>0, <1>a, <2>1, <2>2, <4>1, <4>2
    <2>4. \A x \in PageTabs, g \in Page!Fields :
            pageForm'[x][g] # pageForm[x][g] => x = t /\ g = f
      <3>1. \A g \in Page!Fields : g # f => pageForm'[t][g] = pageForm[t][g]
        <4>1. pageForm[t] \in [Page!Fields -> PageValues]
          BY <2>1 DEF Page!UserRow
        <4>2. pageForm'[t] = [pageForm[t] EXCEPT ![f] = v]
          BY <2>1
        <4> QED
          BY <4>1, <4>2
      <3>2. \A x \in PageTabs \ {t} : pageForm'[x] = pageForm[x]
        BY <2>1
      <3> QED
        BY <3>1, <3>2
    <2>5. PageKept
      <3> SUFFICES ASSUME NEW x \in PageTabs, NEW g \in pageEdited[x],
                          pageForm'[x][g] # pageForm[x][g]
                   PROVE  \E w \in PageValues : Page!Edit(x, g, w)
        BY DEF PageKept
      <3>1. x = t /\ g = f
        BY <1>0, <2>4
      <3> QED
        BY <1>12, <3>1 DEF Page!Edit
    <2> QED
      BY <2>3, <2>5
  <1> QED
    BY <1>1, <1>2, <1>3, <1>6, <1>7, <1>8, <1>9, <1>10, <1>11, <1>12 DEF Page!Next, Page!TabNext

(* What a user has typed or picked stays in the profile form until they    *)
(* change it or leave the page, though late answers to GET and PATCH reach *)
(* the query behind it.                                                    *)
THEOREM TypedIsKept == Page!Spec => FormEditsKept
  <1>1. Page!Init => PageInv
    BY PagesAssumption, PageInit
  <1>2. PageInv /\ [Page!Next]_(Page!vars) => PageInv' /\ PageKept
    BY PagesAssumption, PageStep
  <1> QED
    BY <1>1, <1>2, PTL DEF Page!Spec, FormEditsKept, Page!FormEditsKept, PageKept
=============================================================================
