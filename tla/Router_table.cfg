\* Two API requests and the refresh loop, two writes of at most two rows; the
\* database may fail to list them.
CONSTANTS
  h1 = h1
  h2 = h2
  Handler <- MCTwoHandlers
  Domain <- MCDomains
  Host <- MCHosts
  normalizeHost <- MCNormalize
  Upstream <- MCUpstreams
  BadUpstream <- MCBad
  Mode <- MCModes
  Adds <- MCAdds
  Updates <- MCUpdates
  Externals <- MCExternals
  MaxId = 2
  MaxChanges = 2
  ListMayFail = TRUE
SPECIFICATION FairSpec
INVARIANT UndisturbedMeansRouted
PROPERTIES Converges
