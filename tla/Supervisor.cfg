CONSTANTS
  c1 = c1  c2 = c2
  None = None
  Child = {c1, c2}
  MaxRestarts = 2
  Window = 1
  MaxStarts = 2
SPECIFICATION FairSpec
CHECK_DEADLOCK FALSE
INVARIANTS OneChildPerStart CrashBudget HealthyIsCurrent
PROPERTIES KeepsLimit CrashIsFollowedByLaunch
