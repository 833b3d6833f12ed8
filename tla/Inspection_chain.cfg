\* Every text of at most four symbols in a query, longer ones, and pairs of
\* parameters in a query and in a body that may be cut after the first.
CONSTANTS
  Request <- MCRequest
  MaxBody = 1
SPECIFICATION Spec
INVARIANTS ForwardedWasInspected ScoreOrderFree CommentsHideNothing
  SentencesAreClean
