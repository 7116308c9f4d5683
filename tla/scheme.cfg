\* Two schemes switched twice while records are read in chunks.
CONSTANTS
  Typ = "Hourly"
  ReportDay = 30
  Overlap = 0
  YearUnits = 2
  s1 = s1
  s2 = s2
  s3 = s3
  Schemes = {s1, s2}
  NumChunks <- UnevenChunks
  Fits = {s1, s2}
  DatesOnly = TRUE
  Diagnostics = TRUE
  RangeReplies <- TwoHoursReplies
  Batch = 2
  Moments <- TwoHours
  MaxChanges = 2
  MaxFaults = 1
  Horizon = {10, 11}
  Nil = Nil
  Address = Address
SPECIFICATION FairSpec
INVARIANTS TypeOK UniformRow RefreshedRecordConsistent
PROPERTY SessionEnds
