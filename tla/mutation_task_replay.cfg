SPECIFICATION FairSpec
CONSTANTS
  d1 = d1
  d2 = d2
  Daemon = {d1, d2}
  Wants <- OneTask
  Key = {k1, k2}
  MaxRev = 2
  Limit = 2
  MaxPause = 2
  Interactive = TRUE
  BadAnswers = FALSE
  None = None
CHECK_DEADLOCK FALSE
INVARIANT ReplayKeepsOptions
