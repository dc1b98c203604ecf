\* Two pings of the agent at the same time.
SPECIFICATION Spec
CONSTANTS
  Pings = {p1, p2}
  Readers = {d1}
  None = None
  MaxTime = 3
PROPERTIES
  MapNeverBackwards
