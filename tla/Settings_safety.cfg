\* Two requests at once, every setting, refused saves, lost rows, upgrades.
CONSTANTS
  w1 = w1
  w2 = w2
  ip1 = ip1
  ip2 = ip2
  sqli = sqli
  xss = xss
  u1 = u1
  env = env
  k1 = k1
  k2 = k2
  Writer <- MCTwoWriters
  IP <- MCIPs
  Family <- MCFamilies
  URL <- MCURLs
  ConfigMode = "other"
  ConfigThreshold = 4
  ApiKey <- MCKeys
  ConfigLLM <- MCEnvLLM
  ConfigURL = env
  Body <- MCBodies
  SaveMayFail = TRUE
  Missed <- MCMissed
  Versions <- MCVersions
  MaxRequests = 3
SPECIFICATION Spec
SYMMETRY Symmetry
INVARIANTS SurvivesUnlessCrossed SavedWasInForce NeverSwitchedOffIsOn
  AlertsFollowSettings AnalysesFollowSettings
PROPERTY KeyNeverErased
