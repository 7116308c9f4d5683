\* An overlap as long as the batch.
CONSTANTS
  Typ = "Hourly"
  ReportDay = 30
  Overlap = 2
  YearUnits = 3
  s1 = s1
  s2 = s2
  s3 = s3
  Schemes = {s1}
  NumChunks <- OneChunk
  Fits = {s1}
  DatesOnly = TRUE
  Diagnostics = TRUE
  RangeReplies <- TwoHoursReplies
  Batch = 2
  Moments <- HourlyMoments
  MaxChanges = 0
  MaxFaults = 0
  Horizon <- HourlyHorizon
  Nil = Nil
  Address = Address
SPECIFICATION FairSpec
PROPERTY EventuallyCollected
