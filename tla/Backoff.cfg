\* The clock wraps during the waits, wherever it starts.
SPECIFICATION Spec
CONSTANTS
  StartTimeout = 2
  MaxTimeout = 7
  JitterFraction = 2
  TimeModulus = 18
  MaxPollGap = 3
  MaxCount = 4
INVARIANTS TypeOK NeverLate
PROPERTY NeverEarly
