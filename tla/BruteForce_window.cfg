\* Two requests at once from two addresses, four attempts over six ticks with
\* a window of two ticks and a limit of one attempt, and a clock that may be set
\* back.
CONSTANTS
  r1 = r1
  r2 = r2
  ip1 = ip1
  ip2 = ip2
  Request <- MCRequests
  IP <- MCAddresses
  Window = 2
  Limit = 1
  Start = 3
  MaxTicks = 6
  MaxAttempts = 4
SPECIFICATION Spec
SYMMETRY Symmetry
INVARIANTS ReportsExactly NeverWithoutCause OnlyExpiredForgotten IdleAreSwept
