\* The sending graph of audio, cut down: a DTMF sender with data to drain and an audio source
\* that the worker starts.
SPECIFICATION GraphSpec
CONSTANTS
  Slots = 2
  Nodes = {dtmf, audio}
  SourceNodes = {audio}
  RunTimeNodes = {audio}
  AsyncNodes = {audio}
  Producers = {p1}
  MaxData = 1
  MaxStarts = 2
  MaxSpurious = 1
INVARIANT
  NodesAreFreeToRelease
PROPERTIES
  SuccessMeansNodesRun
  IsImsMediaThread
  StopOfAwakeWorkerReturns
\* a Stop() that is never woken stops the system
CHECK_DEADLOCK FALSE
