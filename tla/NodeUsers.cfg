\* Two commands at a time, any of which may fail or die at any step.
SPECIFICATION Spec
CONSTANTS
  owner = owner
  alice = alice
  p1 = p1
  p2 = p2
  c1 = c1
  c2 = c2
  c3 = c3
  User = {owner, alice}
  Owner = owner
  Cred = {c1, c2, c3}
  Proc = {p1, p2}
SYMMETRY Symmetry
INVARIANTS
  TypeOK
  RevokedStaysOut
  SuccessSettlesDisk
  RestoreIsExact
  SuccessIsServed
PROPERTY
  NoLostUpdate
