SPECIFICATION Spec
CONSTANTS
  RingSize = 2
  Granularity = 2
  RoundSize = 6
  Rate = 2
  Count = 4
  Slots = 3
  MaxTime = 10
INVARIANTS
  TypeOK
  TotalsAreSums
  TotalsSpanWindow
  ScrollInRange
