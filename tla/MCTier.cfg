SPECIFICATION Spec
CONSTANTS
  Programs <- MCPrograms
  Bound <- MCBound
  Start <- MCStart
  Fuel = 100
  Threshold = 1
  EarlyMax = 1
  MaxAttempts = 2
  ColdRetries = 1
  MaxRecompiles = 2
  PolyDeclines = 2
  StackLow = 3
  MaxMisses = 1
INVARIANTS TypeOK SameTrace NoWriteHonest CallsCurrent
PROPERTY Terminates
