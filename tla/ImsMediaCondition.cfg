\* Three bits: the cursors wrap after three signals.
SPECIFICATION ConditionSpec
CONSTANTS
  Slots = 3
  Burst = 3
  MaxSignals = 10
  MaxTimeouts = 9
INVARIANTS
  LossBoundedByTimeouts
  NoPhantomReturn
PROPERTY
  ImplementsCountingSignal
\* the bound on signals ends every behaviour
CHECK_DEADLOCK FALSE
