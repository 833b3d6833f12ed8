\* A family is switched off and the console reads the settings back.
CONSTANTS
  w1 = w1
  w2 = w2
  ip1 = ip1
  ip2 = ip2
  sqli = sqli
  xss = xss
  u1 = u1
  env = env
  k1 = k1
  k2 = k2
  Writer <- MCOneWriter
  IP <- MCIPs
  Family <- MCFamilies
  URL <- MCURLs
  ConfigMode = "block"
  ConfigThreshold = 4
  ApiKey <- MCKeys
  ConfigLLM <- MCNoLLM
  ConfigURL = env
  Body <- MCCategoryBodies
  SaveMayFail = FALSE
  Missed <- MCNoneMissed
  Versions <- MCOneVersion
  MaxRequests = 3
SPECIFICATION Spec
INVARIANTS SnapshotTellsEnabled
