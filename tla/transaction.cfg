\* Reads and writes; the line falls silent in the settling pause.
CONSTANTS
  Kinds = {"read", "write"}
  Settles = TRUE
  MaxTx = 2
  MaxFaults = 2
SPECIFICATION FairSpec
INVARIANTS OwnAnswer NoFalseAlarm RepeatNeedsDamage
PROPERTIES ImplementsExchange TransactionEnds
CHECK_DEADLOCK FALSE
