\* Commits may go unseen.
SPECIFICATION Spec
CONSTANTS
  Keys = {k1}
  Bodies = {b1, b2}
  Requests = {r1, r2}
  None = None
  MaxRows = 3
  Prechecks = FALSE
SYMMETRY MCSymmetry
INVARIANTS
  AtMostOnce
