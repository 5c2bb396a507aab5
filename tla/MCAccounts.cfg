SPECIFICATION Spec
CONSTANTS
  None = None
  u1 = u1  u2 = u2  t1 = t1  t2 = t2  t3 = t3
  Ann = Ann  ANN = ANN  Admin = Admin  Bob = Bob  ann = ann  bob = bob  admin = admin
  cat = cat  script = script
  Users = {u1, u2}
  Slots = {t1, t2}
  Typed = {Ann, ANN, Bob, Admin}
  Names = {ann, bob, admin}
  Canonical <- Spellings
  Reserved = {admin}
  Avatars = {cat, script}
  Curated = {cat}
  MaxTime = 1
SYMMETRY AccountSymmetry
INVARIANTS
  NamesUnique
  OnboardedIsComplete
PROPERTIES
  EditsDoNotClobber
