\* Three requests, a channel of two, a table limited to one row; a crash or a
\* restart at any point.  Under the fairness of the goroutines, for the liveness
\* and the refinement of LossyLog.
CONSTANTS
  e1 = e1
  e2 = e2
  e3 = e3
  Event <- MCEvents
  Cap = 2
  MaxRows = 1
SPECIFICATION FairSpec
INVARIANTS Accounted AcceptanceOrder DrainServesEarlierEvents
PROPERTIES CountKeepsNewest EventuallyServed ImplementsLossyLog
