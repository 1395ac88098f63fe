SPECIFICATION Spec
CONSTANTS
  team = team
  home = home
  new = new
  new2 = new2
  a = a
  b = b
  c = c
  i1 = i1
  i2 = i2
  i3 = i3
  Org = {team, home, new, new2}
  User = {a, b, c}
  Invitation = {i1, i2, i3}
  Request = {r1, r2}
  Leaver = {b}
  Asked = {"owner", "member"}
  None = None
  Start <- MCStart
  Limits = {2, 3}
  Pool = {2, 3}
  Changes = 1
SYMMETRY MCSymmetry
CHECK_DEADLOCK FALSE
INVARIANTS
  OnePersonal
  NobodyStuck
PROPERTIES
  OwnerKept
  EveryoneBelongs
  SeatsKept
