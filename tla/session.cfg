\* Any number of sessions with one fault among them.
SPECIFICATION FairSpec
CONSTANTS
  Days          = {5, 30}
  DefaultDay    = 30
  Versions      = {1, 2}
  ServerVersion = 1
  Databases     = {0}
  Address       = 7
  None          = None
  MaxFaults     = 1
  Properties    = {"t_unit", "t_dec"}
  Readings      = {1, 2}
  Lists        <- MCLists
INVARIANTS TypeOK WholeTables CurrentAttributed
PROPERTIES LearnedDayKept DeviceRowReal QuietAfterCancel ShutsDown SessionsRecur
CHECK_DEADLOCK FALSE
