----------------------------- MODULE MCAccounts -----------------------------
(***************************************************************************)
(* Small instances of Accounts for TLC.                                    *)
(***************************************************************************)
EXTENDS Accounts, TLC

CONSTANTS u1, u2, t1, t2, t3, Ann, ANN, Admin, Bob, ann, bob, admin, cat, script

(* Two spellings of one name, a name of its own, and a reserved one. *)
Spellings ==
  [x \in Typed |->
     IF x \in {Ann, ANN} THEN ann ELSE IF x = Bob THEN bob ELSE IF x = Admin THEN admin ELSE None]

AccountSymmetry == Permutations(Users) \cup Permutations(Slots)
=============================================================================
