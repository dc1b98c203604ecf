\* Two pings of the agent and a dispatcher.
SPECIFICATION Spec
CONSTANTS
  Pings = {p1, p2}
  Readers = {d1}
  None = None
  MaxTime = 3
SYMMETRY MCSymmetry
INVARIANTS
  TypeOK
  HotHasSibling
  FallbackNotOlder
PROPERTIES
  BackwardsOnlyIfOvertaken
