\* Report day 30 and one period re-read.
CONSTANTS
  Typ = "Monthly"
  ReportDay = 30
  Overlap = 1
  YearUnits = 0
  s1 = s1
  s2 = s2
  s3 = s3
  Schemes = {s1}
  NumChunks <- OneChunk
  Fits = {s1}
  DatesOnly = TRUE
  Diagnostics = TRUE
  RangeReplies <- SpringReplies
  Batch = 2
  Moments <- SpringMoments
  MaxChanges = 0
  MaxFaults = 0
  Horizon <- MonthlyHorizon
  Nil = Nil
  Address = Address
SPECIFICATION Spec
INVARIANT NoSilentGap
