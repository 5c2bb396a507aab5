------------------------------ MODULE Accounts ------------------------------
(***************************************************************************)
(* Profiles and the admin bootstrap: requests of signed-in users that      *)
(* write the table "user".  PATCH /api/me/profile reads the user's row,    *)
(* looks for the wanted name, and updates the row, in three statements     *)
(* outside any transaction (profile/service.ts); authContext promotes      *)
(* listed users on any request (middleware/auth.ts).                       *)
(***************************************************************************)
EXTENDS Naturals

CONSTANTS
  Users,        \* signed-in users
  Slots,        \* requests served at the same time
  Typed,        \* display names as users type them
  Names,        \* canonical names
  Canonical,    \* validateDisplayName: the canonical name, None if refused
  Reserved,     \* isReservedDisplayName
  Avatars,      \* strings offered as an avatar
  Curated,      \* isValidAvatarEmoji
  MaxTime,      \* bound: the clock stops here
  None          \* SQL NULL / undefined

Time == 0..MaxTime

ASSUME AccountAssumption ==
  /\ None \notin Users \cup Typed \cup Names \cup Avatars \cup Nat
  /\ Canonical \in [Typed -> Names \cup {None}]
  /\ Reserved \subseteq Names /\ Curated \subseteq Avatars
  /\ MaxTime \in Nat

VARIABLES
  now,          \* the database clock
  users,        \* the rows of "user"; the provider's name and avatar are None
  listed,       \* the users whose email is in ADMIN_EMAIL
  req           \* the request in each slot

vars == <<now, users, listed, req>>

UserRow ==
  [norm: Names \cup {None}, avatar: Avatars \cup {None},
   role: {"player", "admin"}, onboardedAt: Time \cup {None}]

NewUser == [norm |-> None, avatar |-> None, role |-> "player", onboardedAt |-> None]

isOnboarded(row) == row.onboardedAt # None

(* profileBodySchema: at least one of the two fields. *)
ProfilePatch ==
  {patch \in [displayName: Typed \cup {None}, avatarEmoji: Avatars \cup {None}] :
     patch.displayName # None \/ patch.avatarEmoji # None}

canonical(patch) == IF patch.displayName = None THEN None ELSE Canonical[patch.displayName]

Idle == [pc |-> "idle", user |-> None, patch |-> None, row |-> None]

Init ==
  /\ now = 0
  /\ users = [u \in Users |-> NewUser]
  /\ listed \in SUBSET Users
  /\ req = [t \in Slots |-> Idle]

End(t) == req' = [req EXCEPT ![t] = Idle]

GoTo(t, pc) == req' = [req EXCEPT ![t].pc = pc]

-----------------------------------------------------------------------------
(* updateProfile *)

(* A wrong variant: onboarding may be completed one field at a time. *)
AnyField(row, patch) ==
  patch.displayName # None => canonical(patch) \notin Reserved \cup {None}

(* While onboarding is incomplete both fields are required; a name has to  *)
(* be valid and not reserved.                                              *)
Acceptable(row, patch) ==
  /\ isOnboarded(row) \/ (patch.displayName # None /\ patch.avatarEmoji # None)
  /\ patch.displayName # None => canonical(patch) \notin Reserved \cup {None}

(* The row as it is now decides whether the patch is acceptable and whether*)
(* the name has to be looked for.                                          *)
ReadRow(t, u, patch) ==
  /\ req[t].pc = "idle"
  /\ Acceptable(users[u], patch)
  /\ req' = [req EXCEPT ![t] =
       [pc |-> IF canonical(patch) \in {None, users[u].norm} THEN "avatar" ELSE "taken",
        user |-> u, patch |-> patch, row |-> users[u]]]
  /\ UNCHANGED <<now, users, listed>>

HeldByOther(t) ==
  \E v \in Users \ {req[t].user} : users[v].norm = canonical(req[t].patch)

LookForName(t) ==
  /\ req[t].pc = "taken"
  /\ IF HeldByOther(t) THEN End(t) ELSE GoTo(t, "avatar")
  /\ UNCHANGED <<now, users, listed>>

CheckAvatar(t) ==
  /\ req[t].pc = "avatar"
  /\ IF req[t].patch.avatarEmoji \in Curated \cup {None} THEN GoTo(t, "update") ELSE End(t)
  /\ UNCHANGED <<now, users, listed>>

(* A wrong variant: the whole row is written back. *)
WrittenBack(r, current) ==
  [r.row EXCEPT
     !.norm = IF r.patch.displayName = None THEN @ ELSE canonical(r.patch),
     !.avatar = IF r.patch.avatarEmoji = None THEN @ ELSE r.patch.avatarEmoji,
     !.onboardedAt = IF isOnboarded(r.row) THEN @ ELSE now]

(* SET: the fields of the patch, and now() when the row read was not yet   *)
(* onboarded.                                                              *)
Written(r, current) ==
  [current EXCEPT
     !.norm = IF r.patch.displayName = None THEN @ ELSE canonical(r.patch),
     !.avatar = IF r.patch.avatarEmoji = None THEN @ ELSE r.patch.avatarEmoji,
     !.onboardedAt = IF isOnboarded(r.row) THEN @ ELSE now]

(* A wrong variant: the column has no UNIQUE index. *)
NoUniqueIndex(t) == FALSE

(* UNIQUE(display_name_normalized) *)
UniqueViolation(t) == req[t].patch.displayName # None /\ HeldByOther(t)

UpdateRow(t) ==
  LET u == req[t].user IN
  /\ req[t].pc = "update"
  /\ users' = IF UniqueViolation(t) THEN users
              ELSE [users EXCEPT ![u] = Written(req[t], @)]
  /\ End(t)
  /\ UNCHANGED <<now, listed>>

-----------------------------------------------------------------------------
(* applyAdminBootstrap *)

ResolveSession(t, u) ==
  /\ req[t].pc = "idle"
  /\ u \in listed /\ users[u].role # "admin"
  /\ req' = [req EXCEPT ![t] = [pc |-> "promote", user |-> u, patch |-> None, row |-> None]]
  /\ UNCHANGED <<now, users, listed>>

Promote(t) ==
  /\ req[t].pc = "promote"
  /\ users' = [users EXCEPT ![req[t].user].role = "admin"]
  /\ End(t)
  /\ UNCHANGED <<now, listed>>

(* ADMIN_EMAIL is a binding of the deployment. *)
Redeploy ==
  /\ listed' \in SUBSET Users
  /\ UNCHANGED <<now, users, req>>

(* A request dies between two statements. *)
Crash(t) ==
  /\ req[t].pc # "idle"
  /\ End(t)
  /\ UNCHANGED <<now, users, listed>>

Tick == now < MaxTime /\ now' = now + 1 /\ UNCHANGED <<users, listed, req>>

-----------------------------------------------------------------------------
SlotNext(t) ==
  \/ \E u \in Users, patch \in ProfilePatch : ReadRow(t, u, patch)
  \/ LookForName(t) \/ CheckAvatar(t) \/ UpdateRow(t)
  \/ \E u \in Users : ResolveSession(t, u)
  \/ Promote(t)
  \/ Crash(t)

Next == Tick \/ Redeploy \/ \E t \in Slots : SlotNext(t)

Spec == Init /\ [][Next]_vars

-----------------------------------------------------------------------------
(* Properties *)

Request ==
  {Idle}
    \cup [pc: {"taken", "avatar", "update"}, user: Users, patch: ProfilePatch, row: UserRow]
    \cup [pc: {"promote"}, user: Users, patch: {None}, row: {None}]

(* Every variable keeps its type; the stored name is a canonical one. *)
TypeOK ==
  /\ now \in Time
  /\ users \in [Users -> UserRow]
  /\ listed \in SUBSET Users
  /\ req \in [Slots -> Request]

(* No two users ever hold the same name, nor one a reserved name, although *)
(* concurrent requests all find it free before any of them writes.         *)
NamesUnique ==
  \A u \in Users : users[u].norm # None =>
    /\ users[u].norm \notin Reserved
    /\ \A v \in Users \ {u} : users[v].norm # users[u].norm

(* Onboarded means a name and a curated avatar, and nothing of either      *)
(* before (D1), however the requests of the user's tabs interleave or die. *)
OnboardedIsComplete ==
  \A u \in Users :
    /\ isOnboarded(users[u]) <=> users[u].norm # None
    /\ isOnboarded(users[u]) <=> users[u].avatar \in Curated

(* What a step leaves of a user's row, unless a request asks otherwise.     *)
KeptBy(u) ==
  LET asked == {t \in Slots : req[t].pc = "update" /\ req[t].user = u} IN
  /\ users'[u].norm # users[u].norm => \E t \in asked : req[t].patch.displayName # None
  /\ users'[u].avatar # users[u].avatar => \E t \in asked : req[t].patch.avatarEmoji # None
  /\ users[u].role = "admin" => users'[u].role = "admin"
  /\ users'[u].onboardedAt # users[u].onboardedAt =>
       \E t \in asked : ~isOnboarded(req[t].row)
  /\ isOnboarded(users[u]) => isOnboarded(users'[u])

(* A name and an avatar edited at the same time are both kept, a promotion *)
(* survives edits begun before it, and a profile is never un-onboarded: a  *)
(* field only changes by a request that names it, and the moment of        *)
(* onboarding by none that found the profile complete.                     *)
EditsDoNotClobber == [][\A u \in Users : KeptBy(u)]_vars
=============================================================================
