SPECIFICATION Spec
CONSTANTS
  Tabs = {t1, t2}
  None = None
  MaxTokens = 3
SYMMETRY TabSymmetry
INVARIANTS
  TypeOK
  CookieUsable
  OneRefreshPerCycle
PROPERTY
  EndedStaysEnded
