CONSTANTS
  Events <- AllEvents
  MaxEvents = 4
  MaxLost = 5
  Lag = 3
SPECIFICATION Spec
INVARIANT Resync
PROPERTY EffectsExact
CHECK_DEADLOCK FALSE
