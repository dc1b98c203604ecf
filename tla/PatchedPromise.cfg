\* An edit of the job after an edit of the policy.
SPECIFICATION Spec
CONSTANTS
  Hooks = {h1}
  Workers = {w1}
  None = None
  Kinds = {"move", "patch"}
  MaxAttempts = 2
  MaxRounds = 1
  MaxEditions = 2
  MaxExtras = 1
INVARIANTS
  PromiseKept
CHECK_DEADLOCK FALSE
