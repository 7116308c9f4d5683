\* Report day 30 from January to March of a leap year.
CONSTANTS
  Typ = "Monthly"
  ReportDay = 30
  Overlap = 0
  YearUnits = 0
  s1 = s1
  s2 = s2
  s3 = s3
  Schemes = {s1}
  NumChunks <- OneChunk
  Fits = {s1}
  DatesOnly = FALSE
  Diagnostics = TRUE
  RangeReplies <- MonthlyReplies
  Batch = 2
  Moments <- MonthlyMoments
  MaxChanges = 0
  MaxFaults = 1
  Horizon <- MonthlyHorizon
  Nil = Nil
  Address = Address
SPECIFICATION FairSpec
INVARIANTS OnlyFinishedPeriods NoSilentGap
PROPERTIES ImplementsArchiveLog NoRewrite
PROPERTIES EventuallyCollected SessionEnds
