\* One job, two agents, two requests at a time.
SPECIFICATION Spec
CONSTANTS
  Jobs = {j1}
  Agents = {a1, a2}
  Requests = {r1, r2}
  None = None
  DefaultCap = 2
  MemberRows <- MCMemberRows
  MaxVersion = 5
SYMMETRY MCSymmetry
INVARIANTS
  TypeOK
  AssignmentMatchesJob
  TimelineExplainsJob
  RowChecksHold
  ReadsStayCurrent
PROPERTIES
  ConflictMeansMoved
  ImplementsAtomicDispatch
