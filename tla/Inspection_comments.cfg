\* The requests of Inspection_chain: a keyword with a comment in it.
CONSTANTS
  Request <- MCRequest
  MaxBody = 1
SPECIFICATION Spec
INVARIANTS SeesThroughComments
