\* Daily rows re-read by an overlap smaller than the batch; a scheme without
\* archive elements, one whose list is too long to write; old firmware.
CONSTANTS
  Typ = "Daily"
  ReportDay = 30
  Overlap = 1
  YearUnits = 71
  s1 = s1
  s2 = s2
  s3 = s3
  Schemes = {s1, s2, s3}
  NumChunks <- PoorChunks
  Fits = {s1, s2}
  DatesOnly = FALSE
  Diagnostics = FALSE
  RangeReplies <- DailyReplies
  Batch = 2
  Moments <- DailyMoments
  MaxChanges = 1
  MaxFaults = 0
  Horizon <- DailyHorizon
  Nil = Nil
  Address = Address
SPECIFICATION FairSpec
INVARIANT OnlyFinishedPeriods
PROPERTIES ImplementsArchiveLog EventuallyCollected SessionEnds
