\* Two requests at once, refused saves, rows that cannot be read, restarts.
CONSTANTS
  c1 = c1
  c2 = c2
  p1 = p1
  p2 = p2
  tiny = tiny
  Client <- MCClients
  Password <- MCPasswords
  Short <- MCShort
  EnvPassword <- MCEnv
  NoPassword = "none"
  Ttl = 0
  SaveMayFail = TRUE
  Missed <- MCMissed
  MaxRequests = 3
  MaxTime = 1
SPECIFICATION Spec
SYMMETRY MCSymmetry
INVARIANTS EntitledWhileRunning NoSessionWithoutAccount AccountSurvives
PROPERTY SessionsLast
