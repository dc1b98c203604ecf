\* Two workers.
SPECIFICATION Spec
CONSTANTS
  Hooks = {h1}
  Workers = {w1, w2}
  None = None
  Kinds = {"move"}
  MaxAttempts = 2
  MaxRounds = 1
  MaxEditions = 1
  MaxExtras = 1
PROPERTIES
  WarningNeverDowngrades
CHECK_DEADLOCK FALSE
