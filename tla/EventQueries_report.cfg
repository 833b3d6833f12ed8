\* Two rows ever inserted; a clock that starts inside a minute, crosses it, and
\* leaves the hour; limits small enough to be reached.
CONSTANTS
  Content <- MCContent
  Ranges = {"", "all"}
  Clock = {30, 3600, 3631}
  MaxId = 2
  MaxFailures = 1
  RetentionSec = 3600
  MaxRows = 1
  TimelineLimit = 1
  Top = 1
  Several = 0
  Many = 1
SPECIFICATION Spec
INVARIANTS UndisturbedReportAgrees LaterPartsCoverSeries LevelHasCause
  ListsHonest
