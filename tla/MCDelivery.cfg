\* One delivery and two attempts under way, three attempts in all: enough
\* for a late attempt that ends after it was taken over and claimed again.
CONSTANTS
  None = None
  Deliveries = {d1}
  Attempts = {a1, a2}
  ClaimLimit = 3
  MaxAttempts = 2
  StaleAfter = 1
  BaseDelay = 1
  MaxDelay = 1
  LastTime = 4
  MaxCrashes = 1
SPECIFICATION Spec
INVARIANTS TypeOK ClaimsHold SentOnce
PROPERTIES DueIsAttempted
