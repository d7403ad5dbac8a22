SPECIFICATION Spec
CONSTANTS
  N = 5
  Slots = 3
  Layouts <- MCLayouts
  Autonukes = {TRUE, FALSE}
INVARIANTS
  TypeOK
  MarkedAreDisjoint
  ImpliedHasParent
  MarkedDiskImpliesAll
  BlockedHasChild
  CursorVisible
