\* Requests two at a time and one worker: transitions, a second assignment, edits
\* of the policy, stalls and a failing handler, with one edit of the job, one
\* replay, one failure of a hook or one worker that outlives a stall.
\* A job that is terminal and has no evaluation left stops.
SPECIFICATION Spec
CONSTANTS
  Hooks = {h1, h2}
  Workers = {w1}
  None = None
  Kinds = {"move", "patch", "replay"}
  MaxAttempts = 2
  MaxRounds = 2
  MaxEditions = 2
  MaxExtras = 1
SYMMETRY MCSymmetry
INVARIANTS
  TypeOK
  ArmedWhenQuiet
  PromiseNotOlder
  EscalationMatchesState
  BreachAnnounced
PROPERTIES
  ImplementsEscalationLadder
CHECK_DEADLOCK FALSE
