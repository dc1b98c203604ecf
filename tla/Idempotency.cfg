\* Requests that reuse one key of patchJob, with crashes, failed drops, commits
\* whose answer is lost, and expiry.
SPECIFICATION Spec
CONSTANTS
  Keys = {k1}
  Bodies = {b1, b2}
  Requests = {r1, r2, r3}
  None = None
  MaxRows = 2
  Prechecks = TRUE
SYMMETRY MCSymmetry
INVARIANTS
  TypeOK
  RepeatsExplained
  ReservationHeld
PROPERTIES
  AckedStands
  AnswersAreTrue
