\* Events are added while another is dispatched, and the cursors of the condition wrap.
SPECIFICATION FairSpec
CONSTANTS
  Slots = 4
  Senders = {s1, s2}
  Burst = 3
  MaxEvents = 5
INVARIANT
  NothingRunsAfterDeinit
PROPERTIES
  IsEventChannel
  NobodyIsLeftWaiting
\* nothing is left to do once the handler is gone
CHECK_DEADLOCK FALSE
