\* Two jobs competing for two agents, whom an admin takes the role AGENT and
\* gives it back in the middle of an assignment, under fairness.
SPECIFICATION FairSpec
CONSTANTS
  Jobs = {j1, j2}
  Agents = {a1, a2}
  Requests = {r1, r2}
  None = None
  DefaultCap = 2
  MemberRows <- MCMixRows
  MaxVersion = 2
INVARIANTS
  ReferencesGapless
PROPERTIES
  OfferOnlyEligible
  EveryRequestAnswered
