\* Items of every kind, cut anywhere; one subnegotiation may be malformed.
CONSTANTS
  Payload = {1, 240, 255}
  Ignored = {241}
  MaxBreaks = 1
  MaxSent = 3
  MaxBody = 1
SPECIFICATION Spec
INVARIANTS Transparent Resynchronised
