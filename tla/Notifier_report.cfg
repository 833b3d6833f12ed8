\* Three alerts, a channel of two, batches of two, under the fairness of the
\* worker and the ticker; the process may stop.
CONSTANTS
  u1 = u1
  Alert <- MCAlerts
  Cap = 2
  Batch = 2
  URL <- MCURLs
SPECIFICATION FairSpec
CHECK_DEADLOCK FALSE
INVARIANTS NothingLost IncidentsCoverReports BatchBound PostsFollowIncidents
           DrainReportsEarlierAlerts
PROPERTIES EventuallyReported
