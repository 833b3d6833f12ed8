\* One request with every kind of finding against every change of the
\* configuration, in any number and at any point.
CONSTANTS
  r1 = r1
  ip1 = ip1
  host1 = host1
  sqli = sqli
  xss = xss
  Request <- MCOneRequest
  IP <- MCIPs
  Host <- MCHosts
  Category <- MCCategories
  Threshold <- MCThresholds
  App <- MCApps
  Input <- MCInputs
SPECIFICATION Spec
INVARIANTS JudgedInForce BannedNeverForwarded OneStory
