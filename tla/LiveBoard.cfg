SPECIFICATION Spec
CONSTANTS
  Jobs = {j1}
  Instances = {p1, p2}
  None = None
  MaxState = 2
  MaxRepeats = 1
  MaxPublishers = 2
  MaxDeliveries = 2
  MaxOnTheWay = 1
SYMMETRY Processes
INVARIANTS
  TypeOK
  StaleOnlyIfLost
  NoEscalationTwice
