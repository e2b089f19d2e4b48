\* Two clients share the object and four workers may be created, so that a worker is reused
\* while the other client joins it.
SPECIFICATION FairSpec
CONSTANTS
  Clients = {c1, c2}
  Workers = {w1, w2, w3, w4}
  SelfCallers = {w1, w3}
  NoThread = NoThread
INVARIANTS
  JoinedBeforeReuse
  NoWorkerAfterDestroy
PROPERTY
  StoppedJoinReturns
\* after its destruction the object takes no more steps
CHECK_DEADLOCK FALSE
