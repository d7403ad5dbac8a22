SPECIFICATION Spec
CONSTANTS
  N = 5
  Slots = 3
  Layouts <- MCLayouts
  Autonukes = {FALSE}
INVARIANT
  ChildBlocksDisk
