\* Two requests at once, no failure.
CONSTANTS
  w1 = w1
  w2 = w2
  ip1 = ip1
  ip2 = ip2
  sqli = sqli
  xss = xss
  u1 = u1
  env = env
  k1 = k1
  k2 = k2
  Writer <- MCTwoWriters
  IP <- MCIPs
  Family <- MCFamilies
  URL <- MCURLs
  ConfigMode = "block"
  ConfigThreshold = 4
  ApiKey <- MCKeys
  ConfigLLM <- MCNoLLM
  ConfigURL = env
  Body <- MCRaceBodies
  SaveMayFail = FALSE
  Missed <- MCNoneMissed
  Versions <- MCOneVersion
  MaxRequests = 3
SPECIFICATION Spec
INVARIANTS SurvivesRestart
